---- MODULE Spec2Model ----
(***************************************************************************)
(* State machine of the eDIN+ NPU session engine                           *)
(* (custom_components/edinplus/edinplus.py): start()/stop(), the connect   *)
(* loop _ensure_connected, the receive loop _monitor_loop, the keep-alive  *)
(* loop _keepalive_loop and the system-info loop _systeminfo_loop.         *)
(*                                                                         *)
(* asyncio runs one coroutine at a time, so the code between two awaits    *)
(* that suspend is one atomic action of the model.  A coroutine is         *)
(* identified by <<kind, k>>: k is the number of the start() call that     *)
(* runs it ("start") or that created it ("mon", "ka", "si").               *)
(***************************************************************************)
EXTENDS Integers, Naturals, Sequences, FiniteSets, TLC

\* ---- bounds of the model ----
MaxStarts == 2        \* start() calls made by the application
MaxStops == 2         \* stop() calls made by the application
MaxConns == 2         \* TCP connections the gateway accepts
MaxLate == 0          \* ticks by which a sleep may overrun its duration
MaxRefusals == 2      \* connection attempts the gateway lets fail (LiveSpec)

\* ---- program constants ----
DEFAULT_MAX_RETRY_ATTEMPTS == 5
DEFAULT_KEEP_ALIVE_TIMEOUT == 2
DEFAULT_MIN_RECONNECT_DELAY == 2
KEEP_ALIVE_GRACE == 1
NoConn == 0           \* None, for reader / writer / a task handle
NoTime == 1           \* None, for a timestamp

Calls == 1..MaxStarts
StopCalls == 1..MaxStops
Conns == 1..MaxConns
Kinds == {"start", "mon", "ka", "si"}

\* config_flow.py, lines 20-33 and 36-85: the setup form takes any integer
\* for reconnect_delay and max_reconnect_delay and validate_input checks
\* neither; these are the values it is given here.
ReconnectDelays == {1, 3}
MaxReconnectDelays == {2, 4}
AcceptedConfigs ==
    [reconnect_delay : ReconnectDelays, max_reconnect_delay : MaxReconnectDelays,
     use_chan_to_scn_proxy : {TRUE}]

\* The configuration of the session of Spec: the default reconnect_delay
\* (EdinPlusConfig, line 67) and a maximum of twice that.
SessionConfig ==
    [reconnect_delay |-> DEFAULT_MIN_RECONNECT_DELAY,
     max_reconnect_delay |-> 2 * DEFAULT_MIN_RECONNECT_DELAY,
     use_chan_to_scn_proxy |-> TRUE]

\* The same configuration with the scene proxies in use or not
\* (config_flow.py, line 26).
ProxyConfigs == {[SessionConfig EXCEPT !.use_chan_to_scn_proxy = b] : b \in BOOLEAN}

VARIABLES
    config,      \* EdinPlusConfig: reconnect_delay, max_reconnect_delay,
                 \* use_chan_to_scn_proxy
    npu,         \* fields of edinplus_NPU_instance
    pc,          \* position of every coroutine, by <<kind, k>>
    rd,          \* the reader a coroutine is awaiting readline() on
    conn,        \* state of every TCP connection
    sentAt,      \* keepalive_sent_at of keep-alive loop k
    stopPc,      \* position of every stop() call
    racedStops,  \* stop() calls that overlapped a start() call
    refusals,    \* failed connection attempts so far
    lastWait,    \* the delay of the previous retry wait since the last
                 \* successful handshake, 0 if there was none
    ent,         \* the entities of lights, switches and binary_sensors,
                 \* by <<collection, address, channel>>
    out          \* what the last frame or entity command did: the
                 \* callbacks invoked, the events emitted, the socket used

vars ==
    <<config, npu, pc, rd, conn, sentAt, stopPc, racedStops, refusals, lastWait,
      ent, out>>

Min(a, b) == IF a <= b THEN a ELSE b
Max(a, b) == IF a >= b THEN a ELSE b

\* Timestamps are kept relative to the present: datetime.now(timezone.utc)
\* is 0, a timestamp taken d ticks (seconds) ago is -d, and the passing of
\* one tick lowers every stored timestamp by one.  A timestamp older than
\* Oldest is kept as Oldest: no comparison the code makes tells them apart.
now == 0
Oldest == 0 - (DEFAULT_KEEP_ALIVE_TIMEOUT + KEEP_ALIVE_GRACE + MaxLate + 1)
Aged(t) == IF t = NoTime THEN NoTime ELSE Max(t - 1, Oldest)

\* The part of the state the control-flow helpers below transform.
Bundle == [npu |-> npu, pc |-> pc, rd |-> rd, conn |-> conn]

\* A connection some handle or some pending read refers to.
Referenced(n, handles, reads) ==
    \/ handles.reader = n
    \/ handles.writer = n
    \/ \E c \in DOMAIN reads : reads[c] = n

\* A closed connection nothing refers to any more is forgotten.
Forget(cs, handles, reads) ==
    [n \in DOMAIN cs |->
        IF cs[n] = "closed" /\ ~Referenced(n, handles, reads) THEN "unused" ELSE cs[n]]

Install(B) ==
    /\ npu' = B.npu
    /\ pc' = B.pc
    /\ rd' = B.rd
    /\ conn' = Forget(B.conn, B.npu, B.rd)

TaskDone(p) == p \in {"none", "done", "crashed"}

\* The session is running: the receive loop it registered has not ended.
Running ==
    \E k \in Calls : npu._monitor_task = k /\ pc[<<"mon", k>>] \notin {"none", "done", "crashed"}

\* A start() call that is suspended inside _ensure_connected.
StartInFlight == \E k \in Calls : pc[<<"start", k>>] \notin {"idle", "done"}

\* ------------------------------------------------------------------
\* _keepalive_loop, line 453, and _systeminfo_loop, line 570: the head of
\* a periodic loop, which waits for the stop event or for its interval.
PeriodicLoop(stopped) == IF stopped THEN "done" ELSE "wait"

\* start(), lines 268-272: the three background tasks are created.  The
\* first run of the keep-alive and system-info tasks only reaches the head
\* of their loops, and nothing can change the stop event before it (a
\* start() returns at line 263, a stop() cancels them), so it is taken here.
CreateTasks(B, k) ==
    [B EXCEPT !.npu._monitor_task = k,
              !.npu._keepalive_task = k,
              !.npu._systeminfo_task = k,
              !.pc[<<"mon", k>>] = "new",
              !.pc[<<"ka", k>>] = PeriodicLoop(B.npu._stop_event),
              !.pc[<<"si", k>>] = PeriodicLoop(B.npu._stop_event),
              !.pc[<<"start", k>>] = "done"]

\* Another coroutine than c is awaiting readline() on the session's
\* reader: a second readline() on it raises RuntimeError (StreamReader
\* allows one waiter).
ReadClash(B, c) ==
    \E d \in DOMAIN B.rd : d # c /\ B.rd[d] = B.npu.reader

\* What follows the return of _ensure_connected in its caller c:
\* start() creates the tasks; _monitor_loop (lines 743-749) reads or sleeps.
\* A RuntimeError of the read is not caught at line 750 and ends the loop
\* at line 787.
AfterEnsure(B, c) ==
    IF c[1] = "start"
    THEN CreateTasks([B EXCEPT !.rd[c] = NoConn], c[2])
    ELSE IF ~B.npu.online \/ B.npu.reader = NoConn
         THEN [B EXCEPT !.pc[c] = "sleep1", !.rd[c] = NoConn]
         ELSE IF ReadClash(B, c)
         THEN [B EXCEPT !.pc[c] = "crashed", !.rd[c] = NoConn]
         ELSE [B EXCEPT !.pc[c] = "reading", !.rd[c] = B.npu.reader]

\* _ensure_connected, line 374: the head of the connect loop.
ConnectLoop(B, c) ==
    IF B.npu._stop_event
    THEN AfterEnsure(B, c)
    ELSE [B EXCEPT !.pc[c] = "opening", !.rd[c] = NoConn]

\* _ensure_connected, lines 371-374: entry.
EnsureConnected(B, c) ==
    IF B.npu.online /\ B.npu.reader # NoConn /\ B.npu.writer # NoConn
    THEN AfterEnsure(B, c)
    ELSE ConnectLoop(B, c)

\* Faulty variant of the failed attempt: the online flag is left alone.
RetryWaitStaysOnline(B, c) ==
    [B EXCEPT !.rd[c] = NoConn,
              !.pc[c] = IF B.npu._stop_event THEN "woken" ELSE "backoff"]

\* _ensure_connected, lines 416-425: a failed attempt goes offline and
\* waits for the stop event or for the reconnect delay.
RetryWait(B, c) ==
    [B EXCEPT !.npu.online = FALSE,
              !.rd[c] = NoConn,
              !.pc[c] = IF B.npu._stop_event THEN "woken" ELSE "backoff"]

\* _ensure_connected, lines 433-435: the delay after a wait that timed out.
NextDelay(delay, cfg) == Min(delay * 2, cfg.max_reconnect_delay)

\* _monitor_loop, line 741: the head of the receive loop.
MonitorLoop(B, k) ==
    IF B.npu._stop_event
    THEN [B EXCEPT !.pc[<<"mon", k>>] = "done", !.rd[<<"mon", k>>] = NoConn]
    ELSE EnsureConnected(B, <<"mon", k>>)

\* ------------------------------------------------------------------
\* Inbound frames.  A frame is its message type, the number of
\* comma-separated tokens, whether the tokens the handler passes to int()
\* are numeric, its device code, its state / status code, and whether an
\* entity callback it reaches raises.
NEWSTATE_TO_BUTTONEVENT == {0, 1, 2, 5, 6}
DEVCODE_TO_PRODNAME == {1, 2, 4, 8, 9, 12, 13, 14, 15, 16, 17, 18, 19, 21, 24, 30, 144, 145}
STATUSCODE_TO_SUMMARY == {0, 2, 3, 4, 5, 6, 7, 8, 9, 10, 20, 21, 22, 25, 26}

Frame(t, n, num, dev, code, cb) ==
    [type |-> t, nfields |-> n, numeric |-> num, devcode |-> dev, code |-> code,
     callbackRaises |-> cb, address |-> 0, channel |-> 0, padded |-> FALSE]

Frames ==
    { Frame("!OK", 1, TRUE, 0, 0, FALSE),
      Frame("!VERSION", 2, TRUE, 0, 0, FALSE),
      Frame("!INPSTATE", 5, TRUE, 15, 1, FALSE),
      Frame("!INPSTATE", 5, TRUE, 15, 3, FALSE),
      Frame("!INPSTATE", 2, TRUE, 15, 1, FALSE),
      Frame("!INPSTATE", 5, FALSE, 15, 1, FALSE),
      Frame("!INPSTATE", 5, TRUE, 15, 1, TRUE),
      Frame("!BTNSTATE", 5, TRUE, 2, 7, FALSE),
      Frame("!MODULEERR", 4, TRUE, 12, 0, FALSE),
      Frame("!MODULEERR", 4, TRUE, 99, 0, FALSE),
      Frame("!CHANERR", 5, TRUE, 12, 11, FALSE),
      Frame("!UNKNOWN", 1, TRUE, 0, 0, FALSE) }

\* async_response_handler, lines 595-731: whether handling the frame raises.
HandlerRaises(f) ==
    CASE f.type = "!OK" -> FALSE
      [] f.type = "!VERSION" -> f.nfields < 2
      [] f.type = "!INPSTATE" ->
            \/ f.nfields < 5
            \/ ~f.numeric
            \/ f.code \notin NEWSTATE_TO_BUTTONEVENT
            \/ f.callbackRaises
      [] f.type = "!BTNSTATE" ->
            \/ f.nfields < 5
            \/ ~f.numeric
            \/ f.code \notin NEWSTATE_TO_BUTTONEVENT
      [] f.type = "!MODULEERR" ->
            \/ f.nfields < 4
            \/ ~f.numeric
            \/ f.devcode \notin DEVCODE_TO_PRODNAME
            \/ (f.code # 0 /\ f.code \notin STATUSCODE_TO_SUMMARY)
      [] f.type = "!CHANERR" ->
            \/ f.nfields < 5
            \/ ~f.numeric
            \/ f.devcode \notin DEVCODE_TO_PRODNAME
            \/ (f.code # 0 /\ f.code \notin STATUSCODE_TO_SUMMARY)
      [] OTHER -> FALSE

\* async_response_handler, lines 595-604: the fields a handled frame sets.
HandleFrame(n, f, t) ==
    IF f.type = "!OK" THEN [n EXCEPT !.last_keepalive_ack = t] ELSE n

\* ------------------------------------------------------------------
\* Entities.  An entity is identified by the collection that holds it
\* (lights, switches, binary_sensors) and its address and channel; its
\* record holds _is_on ("unknown" for None), _brightness (NoLevel for
\* None, and for an entity that has none), _callbacks, the serial number
\* its _id was formatted with, and its name and area.
NoLevel == 0 - 1
CallbackNames == {"async_write_ha_state"}
NoSerial == "None"
NoStamp == "None"
NoEntity == <<"none", 0, 0>>
Collections == {"light", "switch", "binary_sensor"}
OnOff(b) == IF b THEN "on" ELSE "off"

\* const.py, lines 61-67: the symbolic name of a state code.
ButtonEventName(code) ==
    CASE code = 0 -> "Release-off"
      [] code = 1 -> "Press-on"
      [] code = 2 -> "Hold-on"
      [] code = 5 -> "Short-press"
      [] code = 6 -> "Hold-off"

\* The names payload (info?what=names): AREA lines and CHAN / INPSTATE
\* lines of the form tag,address,devcode,channel,area number,name.
Areas == (1 :> "Hall") @@ (2 :> "Study")
Line(tag, a, d, c, ar, nm) ==
    [tag |-> tag, address |-> a, devcode |-> d, channel |-> c, areanum |-> ar,
     name |-> nm]
NamesPayload ==
    { Line("CHAN", 12, 12, 3, 1, "Ceiling"),
      Line("CHAN", 13, 16, 1, 1, "Fan"),
      Line("CHAN", 14, 17, 1, 1, "Blind"),
      Line("INPSTATE", 15, 9, 2, 1, "Door"),
      Line("INPSTATE", 20, 2, 1, 1, "") }
\* The same installation with a channel whose area number is not defined.
NamesPayloadBadArea == NamesPayload \cup {Line("CHAN", 12, 12, 5, 7, "Porch")}
\* No payload: the text is None or empty.
NoPayload == "empty"
\* The same installation with a second dimmer channel, which no scene
\* stands for.
NamesPayloadTwoDimmers == NamesPayload \cup {Line("CHAN", 12, 12, 4, 2, "Desk")}
NamesOf(nm) ==
    CASE nm = "names" -> NamesPayload
      [] nm = "names_bad" -> NamesPayloadBadArea
      [] nm = "names_two" -> NamesPayloadTwoDimmers
      [] OTHER -> {}

\* The levels payload (info?what=levels) of the installation: its SCENE
\* blocks in the order of the text, each with its SCNFADE time and its
\* SCNCHANLEVEL lines <<address, devcode, channel, level>>.
SceneBlock(num, ar, nm, fade, chans) ==
    [num |-> num, areanum |-> ar, name |-> nm, fade |-> fade, chans |-> chans]
SceneBlocks ==
    << SceneBlock(1, 1, "Evening", 500, << <<12, 12, 3, 128>>, <<13, 16, 1, 255>> >>),
       SceneBlock(2, 1, "Ceiling full", 300, << <<12, 12, 3, 255>> >>),
       SceneBlock(3, 2, "Ceiling on", 700, << <<12, 12, 3, 255>> >>) >>
BlocksOf(lv) == IF lv = NoPayload THEN << >> ELSE SceneBlocks

\* async_edinplus_discover_channels, lines 811-866: the collection a line
\* of the names payload adds an entity to, "none" if it adds none.
Collection(l) ==
    CASE l.tag = "CHAN" /\ l.devcode \in {12, 14, 15} -> "light"
      [] l.tag = "CHAN" /\ l.devcode = 16 -> "switch"
      [] l.tag = "INPSTATE" /\ l.devcode \in {9, 15} -> "binary_sensor"
      [] OTHER -> "none"

\* async_edinplus_discover_channels, lines 811-866: a line whose parsing
\* raises (an area number that is not in the table, an unknown devcode).
LineRaises(l) ==
    \/ l.devcode \notin DEVCODE_TO_PRODNAME
    \/ (l.devcode # 2 /\ l.areanum \notin DOMAIN Areas)

\* __init__ of the entity classes (lines 962-975, 1051-1064, 1094-1110):
\* a new entity knows neither its state nor its brightness.  created_on
\* records the session's writer at that moment; the entity itself holds
\* only the session (self.hub).
NewEntity(serial, l, w) ==
    [is_on |-> "unknown", brightness |-> NoLevel, callbacks |-> {},
     serial |-> serial, name |-> <<Areas[l.areanum], l.name>>,
     area |-> Areas[l.areanum], devcode |-> l.devcode, created_on |-> w]

\* async_edinplus_discover_channels, lines 791-903: the collections built
\* from a names payload, every entity a new object.
DiscoverChannels(lines, serial, w) ==
    LET made == {l \in lines : Collection(l) # "none"}
        ids == {<<Collection(l), l.address, l.channel>> : l \in made}
                 \cup {<<"button", l.address, l.channel>> :
                          l \in {m \in made : Collection(m) = "switch"}}
        line(i) == CHOOSE l \in made :
                      /\ l.address = i[2]
                      /\ l.channel = i[3]
                      /\ Collection(l) = (IF i[1] = "button" THEN "switch" ELSE i[1])
    IN  [i \in ids |-> NewEntity(serial, line(i), w)]

\* async_edinplus_discover_scenes, lines 915-934: a scene for every SCENE
\* block.
DiscoverScenes(blocks) ==
    {[num |-> blocks[j].num, name |-> blocks[j].name, area |-> blocks[j].areanum] :
        j \in DOMAIN blocks}

\* async_edinplus_map_chans_to_scns, lines 936-960: a scene of exactly one
\* channel at level 255 stands for that channel; of several such scenes
\* the last in the text is kept.
IsProxy(b) == Len(b.chans) = 1 /\ b.chans[1][4] = 255
MapChansToScns(blocks) ==
    LET cand == {j \in DOMAIN blocks : IsProxy(blocks[j])}
        key(j) == <<blocks[j].chans[1][1], blocks[j].chans[1][3]>>
        last(k) == CHOOSE j \in cand : key(j) = k /\ \A m \in cand : key(m) = k => m <= j
    IN  [k \in {key(j) : j \in cand} |->
            [scene |-> blocks[last(k)].num, fadetime |-> blocks[last(k)].fade]]

\* The identity key of an entity, edinplus-<serial>-<address>-<channel>.
IdentityKey(e, i) == <<"edinplus", e[i].serial, i[2], i[3]>>

\* One poll of the gateway's HTTP interface: whether the requests
\* succeed, what the levels payload holds (nothing, no !SYSTEMID line, or
\* a !SYSTEMID line with these three fields) and which names payload.
Poll(h, lv, s, e, a, nm) ==
    [http |-> h, levels |-> lv, serial |-> s, edit_stamp |-> e, adjust_stamp |-> a,
     names |-> nm]
\* The polls that cannot reach discovery.
QuietPolls ==
    { Poll("error", NoPayload, NoSerial, NoStamp, NoStamp, NoPayload),
      Poll("ok", NoPayload, NoSerial, NoStamp, NoStamp, NoPayload) }
Serials == {"1001", "1002"}
EditStamps == {"100-1", "100-2"}
AdjustStamps == {"200-1", "200-2"}
Polls ==
    QuietPolls
      \cup {Poll("ok", "nosystemid", NoSerial, NoStamp, NoStamp, "names")}
      \cup {Poll("ok", "systemid", s, e, a, nm) :
               s \in Serials, e \in EditStamps, a \in AdjustStamps,
               nm \in {"names", "names_bad"}}

\* async_edinplus_check_systeminfo, line 345: the test that decides
\* whether discovery runs.
FingerprintChanged(n, p) ==
    \/ n.edit_stamp # p.edit_stamp
    \/ n.adjust_stamp # p.adjust_stamp

\* async_edinplus_discover_areas, lines 905-913: the AREA lines of the
\* levels payload.
DiscoverAreas(lv) == IF lv = NoPayload THEN << >> ELSE Areas

\* discover(), lines 299-324: the area map, the collections, the scenes and
\* the proxy map are built from the payloads the session holds and
\* assigned one after the other; the area map is assigned (line 301)
\* before the channels are parsed, which may raise.
RunDiscover(n, e) ==
    IF \E l \in NamesOf(n.info_what_names) : LineRaises(l)
    THEN [npu |-> [n EXCEPT !.areas = DiscoverAreas(n.info_what_levels)],
          ent |-> e, raised |-> TRUE, discovered |-> FALSE]
    ELSE [npu |-> [n EXCEPT !.areas = DiscoverAreas(n.info_what_levels),
                            !.scenes = DiscoverScenes(BlocksOf(n.info_what_levels)),
                            !.chan_to_scn_proxy =
                                MapChansToScns(BlocksOf(n.info_what_levels))],
          ent |-> DiscoverChannels(NamesOf(n.info_what_names), n.serial_num, n.writer),
          raised |-> FALSE, discovered |-> TRUE]

\* What a discovery was run on: the names payload, the scene blocks and
\* the serial number.  discovered_from keeps it for the next discovery to
\* be compared with.
Inputs(nm, lv, serial) == <<nm, lv, serial>>
NoInputs == Inputs(NoPayload, NoPayload, NoSerial)
Remember(r, nm, lv, serial) ==
    IF r.discovered THEN [r EXCEPT !.npu.discovered_from = Inputs(nm, lv, serial)] ELSE r

\* Faulty variant of the rediscovery of a poll: discovery runs before the
\* new serial number and stamps are stored.
DiscoverBeforeStoring(n, e, p) ==
    LET r == RunDiscover(n, e)
    IN  Remember([r EXCEPT !.npu.serial_num = p.serial,
                           !.npu.edit_stamp = p.edit_stamp,
                           !.npu.adjust_stamp = p.adjust_stamp],
                 p.names, p.levels, p.serial)

\* async_edinplus_check_systeminfo, lines 345-353: the fingerprint is
\* stored and discovery runs.
Discover(n, e, p) ==
    Remember(RunDiscover([n EXCEPT !.serial_num = p.serial,
                                   !.edit_stamp = p.edit_stamp,
                                   !.adjust_stamp = p.adjust_stamp], e),
             p.names, p.levels, p.serial)

\* async_edinplus_check_systeminfo, lines 326-358: one poll.  The two
\* payloads are stored as soon as they are fetched.
CheckSysteminfo(n, e, p) ==
    LET fetched == [n EXCEPT !.info_what_names = p.names,
                             !.info_what_levels = p.levels]
    IN  IF p.http = "error"
        THEN [npu |-> n, ent |-> e, raised |-> TRUE, discovered |-> FALSE]
        ELSE IF p.levels = "systemid" /\ FingerprintChanged(n, p)
        THEN Discover(fetched, e, p)
        ELSE [npu |-> fetched, ent |-> e, raised |-> FALSE, discovered |-> FALSE]

\* _systeminfo_loop, lines 582-585: the poll runs only while the session
\* is online.
SysinfoPoll(n, e, p) ==
    IF n.online
    THEN CheckSysteminfo(n, e, p)
    ELSE [npu |-> n, ent |-> e, raised |-> FALSE, discovered |-> FALSE]

\* ------------------------------------------------------------------
\* Frames on the wire.  split(',') leaves the terminator on the last
\* token, so int() accepts the fifth token only if another token follows
\* it, and int() of its first three characters only if those are digits.
Digits(v) == IF v < 10 THEN 1 ELSE IF v < 100 THEN 2 ELSE 3
ValueTokenNumeric(t, v, padded, trailing) ==
    CASE t \in {"!CHANFADE", "!CHANLEVEL"} -> trailing
      [] t \in {"!INPSTATE", "!BTNSTATE"} ->
            trailing \/ (IF padded THEN 3 ELSE Digits(v)) >= 3
      [] OTHER -> TRUE

\* The frame t,a,d,c,v with an optional sixth token, its numbers padded
\* to three digits or not.
WireFrame(t, a, d, c, v, padded, trailing) ==
    [Frame(t, IF trailing THEN 6 ELSE 5, ValueTokenNumeric(t, v, padded, trailing),
           d, v, FALSE)
        EXCEPT !.address = a, !.channel = c, !.padded = padded]

ChannelFrame(f) == f.type \in {"!CHANFADE", "!CHANLEVEL"}
Matches(i, f) == i[2] = f.address /\ i[3] = f.channel

\* async_response_handler, lines 678-695: the lights and switches the
\* frame is for.
Reached(e, f) ==
    {i \in DOMAIN e : i[1] \in {"light", "switch"} /\ ChannelFrame(f) /\ Matches(i, f)}

\* async_response_handler, lines 614-632: the binary sensors the frame
\* is for.
ReachedSensors(e, f) ==
    {i \in DOMAIN e : i[1] = "binary_sensor" /\ f.type = "!INPSTATE" /\ Matches(i, f)}

\* async_response_handler, lines 614-619: the fields of an !INPSTATE or
\* !BTNSTATE frame parse and its code has a name.
InputParsed(f) ==
    /\ f.type \in {"!INPSTATE", "!BTNSTATE"}
    /\ f.nfields >= 5
    /\ f.numeric
    /\ f.code \in NEWSTATE_TO_BUTTONEVENT

\* async_response_handler, lines 678-695: int() of the level token raises
\* once an entity matches the frame.
EntityRaises(e, f) ==
    /\ ChannelFrame(f)
    /\ Reached(e, f) # {}
    /\ (f.nfields < 5 \/ ~f.numeric)

\* async_response_handler, lines 624-632 and 678-695: the entities after
\* the frame.
HandleEntities(e, f) ==
    [i \in DOMAIN e |->
        IF i \in Reached(e, f) /\ ~EntityRaises(e, f)
        THEN IF i[1] = "light"
             THEN [e[i] EXCEPT !.is_on = OnOff(f.code > 0), !.brightness = f.code]
             ELSE [e[i] EXCEPT !.is_on = OnOff(f.code > 0)]
        ELSE IF i \in ReachedSensors(e, f) /\ InputParsed(f)
        THEN [e[i] EXCEPT !.is_on = OnOff(f.code > 0)]
        ELSE e[i]]

\* async_response_handler, lines 631-632 and 687-695: how often each
\* callback of each entity is called.
Invoked(e, f) ==
    LET hit == {i \in Reached(e, f) : ~EntityRaises(e, f)}
                 \cup {i \in ReachedSensors(e, f) : InputParsed(f)}
    IN  [c \in {x \in hit \X CallbackNames : x[2] \in e[x[1]].callbacks} |-> 1]

\* Callbacks that call back into the entity they are registered on:
\* "unsubscribe" calls remove_callback on itself, "subscribe" calls
\* register_callback(async_write_ha_state).
ReentrantCallbacks == {"unsubscribe", "subscribe"}

\* register_callback / remove_callback (lines 1008-1014, 1086-1092,
\* 1173-1179): the callback set S after callback cb has run.
CallbackEffect(S, cb) ==
    CASE cb = "unsubscribe" -> S \ {cb}
      [] cb = "subscribe" -> S \cup {"async_write_ha_state"}
      [] OTHER -> S

\* The callbacks of S whose call changes the size of S.
Resizing(S) == {cb \in S : CallbackEffect(S, cb) # S}

\* async_response_handler, lines 633-634, 687-688 and 694-695: the entities
\* whose callbacks the frame makes the handler iterate.
Notified(e, f) ==
    {i \in Reached(e, f) : ~EntityRaises(e, f)}
      \cup {i \in ReachedSensors(e, f) : InputParsed(f)}

\* `for callback in entity._callbacks: callback()` iterates the set
\* itself: once a callback has changed its size, fetching the next
\* element raises RuntimeError.
IterationRaises(e, f) == \E i \in Notified(e, f) : Resizing(e[i].callbacks) # {}

\* The outcomes of the handler's callback loops: the entities and the
\* callbacks called.  A set is iterated in no particular order, so the
\* callback that resizes it is any of the resizing ones, and any of the
\* others may have been called before it.
CallbackRuns(e, f) ==
    LET h == HandleEntities(e, f)
        bad == {i \in Notified(e, f) : Resizing(e[i].callbacks) # {}}
        run(i, m, P) ==
            [ent |-> [h EXCEPT ![i].callbacks = CallbackEffect(@, m)],
             invoked |-> [x \in {i} \X (P \cap CallbackNames) |-> 1]]
    IN  IF bad = {}
        THEN {[ent |-> h, invoked |-> Invoked(e, f)]}
        ELSE UNION {UNION {{run(i, m, P) :
                               P \in SUBSET (e[i].callbacks \ Resizing(e[i].callbacks))} :
                            m \in Resizing(e[i].callbacks)} :
                     i \in bad}

\* Faulty variant of the events of a frame: the first report of a binary
\* sensor is announced like every other.
EventsFirstReportToo(e, n, f) ==
    IF ~InputParsed(f) \/ f.callbackRaises
    THEN << >>
    ELSE << [device_uuid |-> <<"edinplus", n.serial_num, f.address, f.channel>>,
             type |-> <<ButtonEventName(f.code)>>] >>

\* Faulty variant of the events of a frame: a keypad's event is keyed by
\* the button's own channel.
EventsChannelInKey(e, n, f) ==
    IF ~InputParsed(f) \/ f.callbackRaises \/ IterationRaises(e, f)
    THEN << >>
    ELSE IF f.type = "!INPSTATE" /\ \E i \in ReachedSensors(e, f) : e[i].is_on = "unknown"
    THEN << >>
    ELSE << [device_uuid |-> <<"edinplus", n.serial_num, f.address, f.channel>>,
             type |-> IF f.type = "!BTNSTATE"
                      THEN <<"Button", f.channel, ButtonEventName(f.code)>>
                      ELSE <<ButtonEventName(f.code)>>] >>

\* async_response_handler, lines 620-650 and 663-676: the events handed
\* to _dispatch_button_event.
Events(e, n, f) ==
    IF ~InputParsed(f) \/ f.callbackRaises \/ IterationRaises(e, f)
    THEN << >>
    ELSE IF f.type = "!BTNSTATE"
    THEN << [device_uuid |-> <<"edinplus", n.serial_num, f.address, 1>>,
             type |-> <<"Button", f.channel, ButtonEventName(f.code)>>] >>
    ELSE IF \E i \in ReachedSensors(e, f) : e[i].is_on = "unknown"
    THEN << >>
    ELSE << [device_uuid |-> <<"edinplus", n.serial_num, f.address, f.channel>>,
             type |-> <<ButtonEventName(f.code)>>] >>

\* The subscribers of button events: the bridge to the event bus
\* (__init__.py, lines 68-102), a subscriber that raises, one that removes
\* itself when it is called and one that registers the bridge when it is
\* called.
Subscribers == {"_handle_button_event", "raises", "unsubscribes", "subscribes"}

\* register_button_event_callback / remove_button_event_callback (lines
\* 148-164) called by the subscribers of S while they are called.
SubscribersAfter(S) ==
    (S \ {"unsubscribes"})
      \cup (IF "subscribes" \in S THEN {"_handle_button_event"} ELSE {})

\* Faulty variant of the dispatch: a subscriber's exception is not caught,
\* and no other subscriber is called after it.
DispatchButtonEventUncaught(S, events) ==
    IF events = << >> \/ S = {}
    THEN [subscribers |-> S, delivered |-> << >>, raised |-> FALSE]
    ELSE IF "raises" \in S
    THEN [subscribers |-> S, delivered |-> [s \in {"raises"} |-> events], raised |-> TRUE]
    ELSE [subscribers |-> SubscribersAfter(S), delivered |-> [s \in S |-> events],
          raised |-> FALSE]

\* _dispatch_button_event, lines 166-176: every payload is passed once to
\* every callback of a copy of the set taken beforehand, and an exception
\* of a callback is logged.
DispatchButtonEvent(S, events) ==
    IF events = << >> \/ S = {}
    THEN [subscribers |-> S, delivered |-> << >>, raised |-> FALSE]
    ELSE [subscribers |-> SubscribersAfter(S), delivered |-> [s \in S |-> events],
          raised |-> FALSE]

NoFrame == Frame("none", 0, TRUE, 0, 0, FALSE)
NoPoll == Poll("none", NoPayload, NoSerial, NoStamp, NoStamp, NoPayload)
NoOutput ==
    [op |-> "none", frame |-> NoFrame, invoked |-> << >>, events |-> << >>,
     delivered |-> << >>, entity |-> NoEntity, socket |-> NoConn, sent |-> FALSE,
     call |-> << >>, wire |-> << >>, poll |-> NoPoll, seq |-> 0]

\* What the system-info loop polled, recorded once discovery has populated
\* the collections and only when the poll ran.
PollOutput(o, n, e, p) ==
    IF DOMAIN e = {} \/ ~n.online
    THEN o
    ELSE [NoOutput EXCEPT !.op = "poll", !.poll = p]

\* What handling a frame hands to the outside, recorded once discovery
\* has populated the collections, and for every keypad frame that yields
\* an event.
FrameOutput(e, n, f) ==
    IF DOMAIN e = {} /\ ~(f.type = "!BTNSTATE" /\ InputParsed(f))
    THEN NoOutput
    ELSE [NoOutput EXCEPT !.op = "frame", !.frame = f, !.invoked = Invoked(e, f),
                          !.events = Events(e, n, f),
                          !.delivered =
                              DispatchButtonEvent(n._button_event_callbacks,
                                                  Events(e, n, f)).delivered]

\* _monitor_loop, lines 784-788: a frame is dispatched; a failure of the
\* handler reaches the loop's outer except clause and ends the loop.
Dispatch(B, k, f, t) ==
    LET d == DispatchButtonEvent(B.npu._button_event_callbacks, Events(ent, B.npu, f))
        told == [B EXCEPT !.npu._button_event_callbacks = d.subscribers]
    IN  IF HandlerRaises(f) \/ EntityRaises(ent, f) \/ IterationRaises(ent, f)
        THEN [B EXCEPT !.pc[<<"mon", k>>] = "crashed", !.rd[<<"mon", k>>] = NoConn]
        ELSE IF d.raised
        THEN [told EXCEPT !.pc[<<"mon", k>>] = "crashed", !.rd[<<"mon", k>>] = NoConn]
        ELSE MonitorLoop([told EXCEPT !.npu = HandleFrame(told.npu, f, t)], k)

\* _monitor_loop, lines 750-782: a read error or EOF; the socket is closed
\* (the coroutine suspends in wait_closed) and the handles are cleared.
MonitorDrop(B, k) ==
    IF B.npu.writer # NoConn
    THEN [B EXCEPT !.npu.online = FALSE,
                   !.conn[B.npu.writer] = "closed",
                   !.rd[<<"mon", k>>] = NoConn,
                   !.pc[<<"mon", k>>] = "closing"]
    ELSE MonitorLoop([B EXCEPT !.npu.online = FALSE,
                               !.npu.reader = NoConn,
                               !.npu.writer = NoConn], k)

\* _monitor_loop, lines 763-765 and 780-782: after wait_closed.
MonitorClear(B, k) ==
    MonitorLoop([B EXCEPT !.npu.reader = NoConn, !.npu.writer = NoConn], k)

\* ------------------------------------------------------------------
\* _keepalive_loop, line 453: the head of the keep-alive loop.
KeepaliveLoop(B, k) ==
    [B EXCEPT !.pc[<<"ka", k>>] = PeriodicLoop(B.npu._stop_event)]

\* Faulty variant of the forced disconnect: the writer is left in place.
ForceClearReaderOnly(n) ==
    [n EXCEPT !.reader = NoConn, !.online = FALSE, !.comms_retry_attempts = 0]

\* _keepalive_loop, lines 494-497 and 555-558: the forced disconnect.
ForceClear(n) ==
    [n EXCEPT !.reader = NoConn, !.writer = NoConn, !.online = FALSE,
              !.comms_retry_attempts = 0]

\* _keepalive_loop, lines 483-498 and 544-558: escalation after a probe.
Escalate(B, k) ==
    IF B.npu.comms_retry_attempts >= DEFAULT_MAX_RETRY_ATTEMPTS
    THEN IF B.npu.writer # NoConn
         THEN [B EXCEPT !.conn[B.npu.writer] = "closed", !.pc[<<"ka", k>>] = "closing"]
         ELSE KeepaliveLoop([B EXCEPT !.npu = ForceClear(B.npu)], k)
    ELSE KeepaliveLoop(B, k)

\* Faulty variant of the evaluation: only an acknowledgement at or after
\* the send time satisfies the probe.
ProbeSatisfiedNoGrace(ack, s, t) ==
    /\ ack # NoTime
    /\ ack >= s

\* _keepalive_loop, lines 504-542: is the probe sent at s acknowledged,
\* evaluated at time t with the latest acknowledgement at ack.
ProbeSatisfied(ack, s, t) ==
    /\ ack # NoTime
    /\ \/ ack >= s
       \/ t - ack <= DEFAULT_KEEP_ALIVE_TIMEOUT + KEEP_ALIVE_GRACE

\* Faulty variant of the evaluation: a probe with no acknowledgement at
\* all is counted in the None branch and again in the stale branch.
EvalCounterTwice(count, ack, s, t) ==
    IF ProbeSatisfied(ack, s, t) THEN 0
    ELSE IF ack = NoTime THEN count + 2 ELSE count + 1

\* _keepalive_loop, lines 504-542: the counter after a probe's evaluation.
EvalCounter(count, ack, s, t) ==
    IF ProbeSatisfied(ack, s, t) THEN 0 ELSE count + 1

\* _keepalive_loop, lines 473-474: the counter after a send that raised.
SendFailCounter(count) == count + 1

\* ------------------------------------------------------------------
\* _systeminfo_loop, line 570: the head of the system-info loop.
SysinfoLoop(B, k) ==
    [B EXCEPT !.pc[<<"si", k>>] = PeriodicLoop(B.npu._stop_event)]

\* _systeminfo_loop, lines 582-589: after the interval wait the poll runs
\* if the session is online; a poll that raises ends the loop.
SysinfoBody(B, k, ok) ==
    IF ~B.npu.online \/ ok
    THEN SysinfoLoop(B, k)
    ELSE [B EXCEPT !.pc[<<"si", k>>] = "crashed"]

\* ------------------------------------------------------------------
\* stop(), lines 279-285: task.cancel() for every registered task.
Cancel(pcf, n) ==
    [c \in DOMAIN pcf |->
        IF \/ (c[1] = "mon" /\ c[2] = n._monitor_task)
           \/ (c[1] = "ka" /\ c[2] = n._keepalive_task)
           \/ (c[1] = "si" /\ c[2] = n._systeminfo_task)
        THEN (IF TaskDone(pcf[c]) THEN pcf[c] ELSE "done")
        ELSE pcf[c]]

\* stop(), line 277: _stop_event.set() resolves every pending wait on it.
WakeWaiters(pcf) ==
    [c \in DOMAIN pcf |-> IF pcf[c] \in {"backoff", "wait"} THEN "woken" ELSE pcf[c]]

\* Faulty variant of the end of stop(): the online flag is left alone.
StopClearKeepsOnline(n) ==
    [n EXCEPT !.reader = NoConn, !.writer = NoConn]

\* stop(), lines 295-297.
StopClear(n) ==
    [n EXCEPT !.reader = NoConn, !.writer = NoConn, !.online = FALSE]

\* stop(), lines 277-285.
StopSignal(n) ==
    [n EXCEPT !._stop_event = TRUE,
              !._monitor_task = NoConn,
              !._keepalive_task = NoConn,
              !._systeminfo_task = NoConn]

\* ------------------------------------------------------------------
\* The state after construction (__init__, lines 113-134) of a session
\* whose configuration is one of cfgs.
Constructed(cfgs) ==
    /\ config \in cfgs
    /\ npu = [online |-> FALSE,
              reader |-> NoConn,
              writer |-> NoConn,
              comms_retry_attempts |-> 0,
              _reconnect_delay |-> config.reconnect_delay,
              _use_chan_to_scn_proxy |-> config.use_chan_to_scn_proxy,
              _button_event_callbacks |-> {},
              last_keepalive_ack |-> NoTime,
              _stop_event |-> FALSE,
              _monitor_task |-> NoConn,
              _keepalive_task |-> NoConn,
              _systeminfo_task |-> NoConn,
              serial_num |-> NoSerial,
              edit_stamp |-> NoStamp,
              adjust_stamp |-> NoStamp,
              info_what_names |-> NoPayload,
              info_what_levels |-> NoPayload,
              areas |-> << >>,
              scenes |-> {},
              chan_to_scn_proxy |-> << >>,
              discovered_from |-> NoInputs]
    /\ pc = [c \in Kinds \X Calls |-> IF c[1] = "start" THEN "idle" ELSE "none"]
    /\ rd = [c \in {"start", "mon"} \X Calls |-> NoConn]
    /\ conn = [n \in Conns |-> "unused"]
    /\ sentAt = [k \in Calls |-> NoTime]
    /\ stopPc = [j \in StopCalls |-> "idle"]
    /\ racedStops = {}
    /\ refusals = 0
    /\ lastWait = 0
    /\ ent = << >>
    /\ out = NoOutput

Init == Constructed({SessionConfig})

InitAnyConfig == Constructed(AcceptedConfigs)

InitProxy == Constructed(ProxyConfigs)

\* ------------------------------------------------------------------
\* Faulty variant of the guard of start(): the test of done() inverted.
MonitorTaskActiveInverted(n, pcf) ==
    /\ n._monitor_task # NoConn
    /\ TaskDone(pcf[<<"mon", n._monitor_task>>])

\* start(), line 261: self._monitor_task and not self._monitor_task.done().
MonitorTaskActive(n, pcf) ==
    /\ n._monitor_task # NoConn
    /\ ~TaskDone(pcf[<<"mon", n._monitor_task>>])

\* start(), lines 255-272.
StartCall(k) ==
    /\ pc[<<"start", k>>] = "idle"
    /\ \A j \in Calls : j < k => pc[<<"start", j>>] # "idle"
    /\ IF MonitorTaskActive(npu, pc)
       THEN /\ pc' = [pc EXCEPT ![<<"start", k>>] = "done"]
            /\ UNCHANGED <<npu, rd, conn>>
       ELSE Install(EnsureConnected([Bundle EXCEPT !.npu._stop_event = FALSE],
                                    <<"start", k>>))
    /\ racedStops' = racedStops \cup {j \in StopCalls : stopPc[j] = "closing"}
    /\ UNCHANGED <<ent, out, config, sentAt, stopPc, refusals, lastWait>>

\* A connection id that is free.
FreeConn(n) == conn[n] = "unused"

\* _ensure_connected, lines 381-393: open_connection succeeded; the
\* handles are stored, the session is marked online, the counter and the
\* delay are reset, $EVENTS,1; is sent and the reply is awaited.
ConnectOk(c) ==
    /\ pc[c] = "opening"
    /\ \E n \in Conns :
        /\ FreeConn(n)
        /\ \A m \in Conns : m < n => ~FreeConn(m)
        /\ npu' = [npu EXCEPT !.reader = n,
                              !.writer = n,
                              !.online = TRUE,
                              !.comms_retry_attempts = 0,
                              !._reconnect_delay = config.reconnect_delay]
        /\ conn' = [conn EXCEPT ![n] = "open"]
        /\ rd' = [rd EXCEPT ![c] = n]
    /\ pc' = [pc EXCEPT ![c] = "hs_read"]
    /\ UNCHANGED <<ent, out, config, sentAt, stopPc, racedStops, lastWait>>

\* _ensure_connected, lines 409-425: open_connection raised.
ConnectFail(c) ==
    /\ pc[c] = "opening"
    /\ Install(RetryWait(Bundle, c))
    /\ lastWait' = npu._reconnect_delay
    /\ UNCHANGED <<ent, out, config, sentAt, stopPc, racedStops>>

\* _ensure_connected, lines 393-402: the reply is !GATRDY;.
HandshakeReady(c) ==
    /\ pc[c] = "hs_read"
    /\ conn[rd[c]] \in {"open", "peer_closed"}
    /\ Install(AfterEnsure(Bundle, c))
    /\ lastWait' = 0
    /\ UNCHANGED <<ent, out, config, sentAt, stopPc, racedStops>>

\* _ensure_connected, lines 395-425: the gateway's reply is empty or is
\* not the ready token.
HandshakeRefused(c) ==
    /\ pc[c] = "hs_read"
    /\ conn[rd[c]] = "open"
    /\ Install(RetryWait(Bundle, c))
    /\ lastWait' = npu._reconnect_delay
    /\ UNCHANGED <<ent, out, config, sentAt, stopPc, racedStops>>

\* _ensure_connected, lines 395-425: the read ends with EOF or an error
\* on a connection that is closed.
HandshakeEOF(c) ==
    /\ pc[c] = "hs_read"
    /\ conn[rd[c]] \in {"peer_closed", "closed"}
    /\ Install(RetryWait(Bundle, c))
    /\ lastWait' = npu._reconnect_delay
    /\ UNCHANGED <<ent, out, config, sentAt, stopPc, racedStops, refusals>>

\* _ensure_connected, lines 426-435 and 374: the wait timed out.
BackoffTimeout(c) ==
    /\ pc[c] = "backoff"
    /\ Install(ConnectLoop([Bundle EXCEPT !.npu._reconnect_delay =
                                NextDelay(npu._reconnect_delay, config)], c))
    /\ UNCHANGED <<ent, out, config, sentAt, stopPc, racedStops, refusals, lastWait>>

\* Faulty variant of the woken wait: the loop goes on to another attempt.
WakeReturnRetries(B, c) ==
    [B EXCEPT !.pc[c] = "opening", !.rd[c] = NoConn]

\* What a connect loop does when the stop event ended its wait (line 425).
WakeReturn(B, c) == AfterEnsure(B, c)

\* _ensure_connected, lines 424-425: the stop event ended the wait.
BackoffWake(c) ==
    /\ c[1] \in {"start", "mon"}
    /\ pc[c] = "woken"
    /\ Install(WakeReturn(Bundle, c))
    /\ UNCHANGED <<ent, out, config, sentAt, stopPc, racedStops, refusals, lastWait>>

\* ------------------------------------------------------------------
\* _monitor_loop, line 741: the task starts, or its one-second sleep ends.
MonitorRun(k) ==
    /\ pc[<<"mon", k>>] \in {"new", "sleep1"}
    /\ Install(MonitorLoop(Bundle, k))
    /\ UNCHANGED <<ent, out, config, sentAt, stopPc, racedStops, refusals, lastWait>>

\* _monitor_loop, lines 749 and 784: a frame is read and dispatched.
MonitorRecv(k, f) ==
    /\ pc[<<"mon", k>>] = "reading"
    /\ conn[rd[<<"mon", k>>]] = "open"
    /\ Install(Dispatch(Bundle, k, f, now))
    /\ \E r \in CallbackRuns(ent, f) :
          /\ ent' = r.ent
          /\ out' = [FrameOutput(ent, npu, f) EXCEPT !.invoked = r.invoked]
    /\ UNCHANGED <<config, sentAt, stopPc, racedStops, refusals, lastWait>>

\* _monitor_loop, lines 750-782: the read raised or returned EOF.
MonitorReadEnd(k) ==
    /\ pc[<<"mon", k>>] = "reading"
    /\ conn[rd[<<"mon", k>>]] \in {"peer_closed", "closed"}
    /\ Install(MonitorDrop(Bundle, k))
    /\ UNCHANGED <<ent, out, config, sentAt, stopPc, racedStops, refusals, lastWait>>

\* _monitor_loop, lines 760-765 and 777-782: wait_closed returned.
MonitorCloseDone(k) ==
    /\ pc[<<"mon", k>>] = "closing"
    /\ Install(MonitorClear(Bundle, k))
    /\ UNCHANGED <<ent, out, config, sentAt, stopPc, racedStops, refusals, lastWait>>

\* The gateway closes or resets a connection.
GatewayDrop(n) ==
    /\ conn[n] = "open"
    /\ Referenced(n, npu, rd)
    /\ conn' = [conn EXCEPT ![n] = "peer_closed"]
    /\ UNCHANGED <<ent, out, config, npu, pc, rd, sentAt, stopPc, racedStops, lastWait>>

\* The gateway drops a connection the session has abandoned without
\* closing it (const.py, line 7: the NPU drops an idle connection).
GatewayIdleDrop(n) ==
    /\ conn[n] \in {"open", "peer_closed"}
    /\ ~Referenced(n, npu, rd)
    /\ conn' = [conn EXCEPT ![n] = "unused"]
    /\ UNCHANGED <<ent, out, config, npu, pc, rd, sentAt, stopPc, racedStops, refusals, lastWait>>

\* ------------------------------------------------------------------
\* _keepalive_loop, lines 455-472 and 500-502: the interval elapsed and
\* the probe was written.
KeepaliveSend(k) ==
    /\ pc[<<"ka", k>>] = "wait"
    /\ IF ~npu.online \/ npu.writer = NoConn \/ npu.reader = NoConn
       THEN /\ Install(KeepaliveLoop(Bundle, k))
            /\ UNCHANGED sentAt
       ELSE /\ pc' = [pc EXCEPT ![<<"ka", k>>] = "ack_sleep"]
            /\ sentAt' = [sentAt EXCEPT ![k] = now]
            /\ UNCHANGED <<npu, rd, conn>>
    /\ UNCHANGED <<ent, out, config, stopPc, racedStops, refusals, lastWait>>

\* _keepalive_loop, lines 466-498: the interval elapsed and writing the
\* probe raised.
KeepaliveSendFail(k) ==
    /\ pc[<<"ka", k>>] = "wait"
    /\ npu.online /\ npu.writer # NoConn /\ npu.reader # NoConn
    /\ conn[npu.writer] # "open"
    /\ Install(Escalate([Bundle EXCEPT !.npu.comms_retry_attempts =
                             SendFailCounter(npu.comms_retry_attempts)], k))
    /\ sentAt' = [sentAt EXCEPT ![k] = now]
    /\ UNCHANGED <<ent, out, config, stopPc, racedStops, refusals, lastWait>>

\* _keepalive_loop, lines 502-558: the timeout elapsed; the probe is
\* evaluated.
KeepaliveEval(k) ==
    /\ pc[<<"ka", k>>] = "ack_sleep"
    /\ now >= sentAt[k] + DEFAULT_KEEP_ALIVE_TIMEOUT
    /\ Install(Escalate([Bundle EXCEPT !.npu.comms_retry_attempts =
                             EvalCounter(npu.comms_retry_attempts,
                                         npu.last_keepalive_ack, sentAt[k], now)], k))
    /\ UNCHANGED <<ent, out, config, sentAt, stopPc, racedStops, refusals, lastWait>>

\* _keepalive_loop, lines 491-498 and 552-558: wait_closed returned.
KeepaliveCloseDone(k) ==
    /\ pc[<<"ka", k>>] = "closing"
    /\ Install(KeepaliveLoop([Bundle EXCEPT !.npu = ForceClear(npu)], k))
    /\ UNCHANGED <<ent, out, config, sentAt, stopPc, racedStops, refusals, lastWait>>

\* _keepalive_loop, lines 455-457: the stop event ended the interval wait.
KeepaliveWake(k) ==
    /\ pc[<<"ka", k>>] = "woken"
    /\ pc' = [pc EXCEPT ![<<"ka", k>>] = "done"]
    /\ UNCHANGED <<ent, out, config, npu, rd, conn, sentAt, stopPc, racedStops, refusals, lastWait>>

\* ------------------------------------------------------------------
\* _systeminfo_loop, lines 572-589: the interval elapsed.
SysinfoTick(k, p) ==
    /\ pc[<<"si", k>>] = "wait"
    /\ LET r == SysinfoPoll(npu, ent, p)
       IN  /\ Install(SysinfoBody([Bundle EXCEPT !.npu = r.npu], k, ~r.raised))
           /\ ent' = r.ent
    /\ out' = PollOutput(out, npu, ent, p)
    /\ UNCHANGED <<config, sentAt, stopPc, racedStops, refusals, lastWait>>

\* _systeminfo_loop, lines 572-589: the stop event ended the interval wait.
SysinfoWake(k, p) ==
    /\ pc[<<"si", k>>] = "woken"
    /\ IF npu._stop_event
       THEN /\ Install([Bundle EXCEPT !.pc[<<"si", k>>] = "done"])
            /\ UNCHANGED <<ent, out>>
       ELSE LET r == SysinfoPoll(npu, ent, p)
            IN  /\ Install(SysinfoBody([Bundle EXCEPT !.npu = r.npu], k, ~r.raised))
                /\ ent' = r.ent
                /\ out' = PollOutput(out, npu, ent, p)
    /\ UNCHANGED <<config, sentAt, stopPc, racedStops, refusals, lastWait>>

\* ------------------------------------------------------------------
\* stop(), lines 274-297, up to the await of wait_closed.
StopCall(j) ==
    /\ stopPc[j] = "idle"
    /\ \A i \in StopCalls : i < j => stopPc[i] # "idle"
    /\ pc' = WakeWaiters(Cancel(pc, npu))
    /\ rd' = [c \in DOMAIN rd |-> IF TaskDone(pc'[c]) THEN NoConn ELSE rd[c]]
    /\ IF npu.writer # NoConn
       THEN /\ npu' = StopSignal(npu)
            /\ conn' = Forget([conn EXCEPT ![npu.writer] = "closed"], npu', rd')
            /\ stopPc' = [stopPc EXCEPT ![j] = "closing"]
            /\ racedStops' = IF StartInFlight THEN racedStops \cup {j} ELSE racedStops
       ELSE /\ npu' = StopClear(StopSignal(npu))
            /\ conn' = Forget(conn, npu', rd')
            /\ stopPc' = [stopPc EXCEPT ![j] = "done"]
            /\ UNCHANGED racedStops
    /\ UNCHANGED <<ent, out, config, sentAt, refusals, lastWait>>

\* stop(), lines 290-297: wait_closed returned.
StopCloseDone(j) ==
    /\ stopPc[j] = "closing"
    /\ npu' = StopClear(npu)
    /\ conn' = Forget(conn, npu', rd)
    /\ stopPc' = [stopPc EXCEPT ![j] = "done"]
    /\ UNCHANGED <<ent, out, config, pc, rd, sentAt, racedStops, refusals, lastWait>>

\* One tick of time passes; a sleep overruns by at most MaxLate ticks.
Tick ==
    /\ \A k \in Calls : pc[<<"ka", k>>] = "ack_sleep" =>
            now - sentAt[k] < DEFAULT_KEEP_ALIVE_TIMEOUT + MaxLate
    /\ npu' = [npu EXCEPT !.last_keepalive_ack = Aged(npu.last_keepalive_ack)]
    /\ sentAt' = [k \in Calls |-> Aged(sentAt[k])]
    /\ <<npu', sentAt'>> # <<npu, sentAt>>
    /\ UNCHANGED <<ent, out, config, pc, rd, conn, stopPc, racedStops, refusals, lastWait>>

\* ------------------------------------------------------------------
\* async_setup_entry (__init__.py, lines 55-59): once start() has
\* returned, the first poll runs, online or not.
SetupPoll(p) ==
    /\ pc[<<"start", 1>>] = "done"
    /\ npu.edit_stamp = NoStamp
    /\ LET r == CheckSysteminfo(npu, ent, p)
       IN  /\ npu' = r.npu
           /\ ent' = r.ent
    /\ UNCHANGED <<out, config, pc, rd, conn, sentAt, stopPc, racedStops, refusals,
                   lastWait>>

\* discover() (lines 299-324) called again on the payloads the session
\* holds.
DiscoverCall ==
    /\ pc[<<"start", 1>>] = "done"
    /\ npu.info_what_names # NoPayload
    /\ LET r == Remember(RunDiscover(npu, ent), npu.info_what_names,
                         npu.info_what_levels, npu.serial_num)
       IN  /\ npu' = r.npu
           /\ ent' = r.ent
           /\ out' = [NoOutput EXCEPT !.op = IF r.raised THEN "raised" ELSE "discover",
                                      !.seq = 1 - out.seq]
    /\ UNCHANGED <<config, pc, rd, conn, sentAt, stopPc, racedStops, refusals,
                   lastWait>>

\* register_callback (lines 1008-1010, 1086-1088, 1173-1175), called by
\* every entity of a platform when the platform adds it (light.py, line
\* 65; switch.py, line 64; binary_sensor.py, line 55).
RegisterCallback(kind, cb) ==
    /\ \E i \in DOMAIN ent : i[1] = kind /\ cb \notin ent[i].callbacks
    /\ ent' = [i \in DOMAIN ent |->
                 IF i[1] = kind THEN [ent[i] EXCEPT !.callbacks = @ \cup {cb}]
                 ELSE ent[i]]
    /\ UNCHANGED <<out, config, npu, pc, rd, conn, sentAt, stopPc, racedStops,
                   refusals, lastWait>>

\* remove_callback (lines 1012-1014, 1090-1092, 1177-1179), called by every
\* entity of a platform when it is removed (light.py, line 70).
RemoveCallback(kind, cb) ==
    /\ \E i \in DOMAIN ent : i[1] = kind /\ cb \in ent[i].callbacks
    /\ ent' = [i \in DOMAIN ent |->
                 IF i[1] = kind THEN [ent[i] EXCEPT !.callbacks = @ \ {cb}]
                 ELSE ent[i]]
    /\ UNCHANGED <<out, config, npu, pc, rd, conn, sentAt, stopPc, racedStops,
                   refusals, lastWait>>

\* register_button_event_callback (lines 148-157).
RegisterButtonEventCallback(cb) ==
    /\ cb \notin npu._button_event_callbacks
    /\ npu' = [npu EXCEPT !._button_event_callbacks = @ \cup {cb}]
    /\ UNCHANGED <<ent, out, config, pc, rd, conn, sentAt, stopPc, racedStops,
                   refusals, lastWait>>

\* remove_button_event_callback (lines 159-164).
RemoveButtonEventCallback(cb) ==
    /\ cb \in npu._button_event_callbacks
    /\ npu' = [npu EXCEPT !._button_event_callbacks = @ \ {cb}]
    /\ UNCHANGED <<ent, out, config, pc, rd, conn, sentAt, stopPc, racedStops,
                   refusals, lastWait>>

\* The commands of an entity.
AllCommands == {"turn_on", "turn_off", "set_brightness"}
PulseCommands == {"press"}
Commands(i) ==
    IF i[1] = "light" THEN {"turn_on", "turn_off", "set_brightness"}
    ELSE IF i[1] = "switch" THEN {"turn_on", "turn_off"}
    ELSE IF i[1] = "button" THEN PulseCommands
    ELSE {}
Intensities == {0, 1, 255}
Arguments(cmd) ==
    CASE cmd = "turn_on" -> {255}
      [] cmd = "turn_off" -> {0}
      [] cmd = "press" -> {0}
      [] OTHER -> Intensities

\* Faulty variant of what a command stores: _is_on alone.
CommandEffectStateOnly(r, i, L) == [r EXCEPT !.is_on = OnOff(L > 0)]

\* set_brightness, turn_on, turn_off of a dimmer (lines 1139-1140,
\* 1151-1152, 1163-1164) and of a relay (lines 991 and 996): what the
\* command stores once its message is written.
CommandEffect(r, i, L) ==
    IF i[1] = "light"
    THEN [r EXCEPT !.is_on = OnOff(L > 0), !.brightness = L]
    ELSE IF i[1] = "switch"
    THEN [r EXCEPT !.is_on = OnOff(L > 0)]
    ELSE r

\* Faulty variant of the order within a command: the state is stored
\* before the message is written.
CommandResultStoredFirst(r, i, L, raised) == CommandEffect(r, i, L)

\* The entity after a command (lines 990-991, 995-996, 1131-1138,
\* 1143-1150, 1155-1162, 1039): the state is stored after the await of
\* tcp_send_message, so a command whose write raises stores nothing.
CommandResult(r, i, L, raised) == IF raised THEN r ELSE CommandEffect(r, i, L)

\* Faulty variant of the socket of a command: the writer of the first
\* connection, which was the session's when the entities were created.
CommandSocketAtCreation(n) == IF n.writer = NoConn THEN NoConn ELSE 1

\* tcp_send_message(self.hub.writer, ...) (lines 990, 995, 1132-1158): the
\* socket a command is written to is the session's writer as it is when
\* the command runs.
CommandSocket(n) == n.writer

\* set_brightness, turn_on, turn_off (lines 1130, 1142, 1154): the key a
\* dimmer looks itself up by in the proxy map, address and channel each
\* padded to three digits as the map's keys are (lines 952-955).
ChanToScnId(i) == <<i[2], i[3]>>

\* Faulty variant of the message of a command: always the channel's own.
WireCommandDirect(n, e, i, cmd, L) ==
    IF i[1] = "button"
    THEN <<"$ChanPulse", i[2], e[i].devcode, i[3], 3, 1000>>
    ELSE <<"$ChanFade", i[2], e[i].devcode, i[3], L, 0>>

\* The message a command hands to tcp_send_message: a dimmer whose channel
\* has a proxy scene recalls that scene while the proxies are in use
\* (lines 1131-1135, 1143-1147, 1155-1159); a relay fades its channel
\* (lines 990 and 995); a pulse button pulses it for pulse_time
\* milliseconds (lines 1027 and 1039).
WireCommand(n, e, i, cmd, L) ==
    IF /\ i[1] = "light"
       /\ n._use_chan_to_scn_proxy
       /\ ChanToScnId(i) \in DOMAIN n.chan_to_scn_proxy
    THEN LET p == n.chan_to_scn_proxy[ChanToScnId(i)]
         IN  CASE cmd = "set_brightness" -> <<"$SCNRECALLX", p.scene, L, p.fadetime>>
               [] cmd = "turn_on" -> <<"$SCNRECALL", p.scene>>
               [] cmd = "turn_off" -> <<"$SCNOFF", p.scene>>
    ELSE IF i[1] = "button"
    THEN <<"$ChanPulse", i[2], e[i].devcode, i[3], 3, 1000>>
    ELSE <<"$ChanFade", i[2], e[i].devcode, i[3], L, 0>>

\* A command of an entity (lines 989-997 and 1127-1164): with no writer
\* the write raises, on a connection that is no longer open drain() may
\* raise, and a command that raised stores nothing.
EntityCommand(i, cmd, L, raised) ==
    /\ i \in DOMAIN ent
    /\ cmd \in Commands(i)
    /\ L \in Arguments(cmd)
    /\ IF CommandSocket(npu) = NoConn THEN raised
       ELSE IF conn[CommandSocket(npu)] = "open" THEN ~raised
       ELSE TRUE
    /\ ent' = [ent EXCEPT ![i] = CommandResult(@, i, L, raised)]
    /\ out' = [NoOutput EXCEPT !.op = "command", !.entity = i,
                               !.socket = CommandSocket(npu),
                               !.call = IF raised THEN << >> ELSE <<cmd, L>>,
                               !.wire = IF raised THEN << >>
                                        ELSE WireCommand(npu, ent, i, cmd, L),
                               !.sent = (CommandSocket(npu) # NoConn /\ ~raised)]
    /\ UNCHANGED <<config, npu, pc, rd, conn, sentAt, stopPc, racedStops, refusals,
                   lastWait>>

\* The frames the gateway sends about the installation: level reports
\* with and without a token after the level, for a dimmer channel, a
\* relay channel and a channel that was not discovered, and input state
\* reports for a contact input, padded to three digits or not.
EntityFrames ==
    {WireFrame("!CHANLEVEL", 12, 12, c, v, FALSE, tr) :
        c \in {3, 9}, v \in {0, 180}, tr \in BOOLEAN}
      \cup {WireFrame("!CHANFADE", 12, 12, 3, 180, FALSE, tr) : tr \in BOOLEAN}
      \cup {WireFrame("!CHANLEVEL", 13, 16, 1, v, FALSE, TRUE) : v \in {0, 255}}
      \cup {WireFrame("!INPSTATE", 15, 9, 2, v, TRUE, FALSE) : v \in {0, 1, 3, 5}}
      \cup {WireFrame("!INPSTATE", 15, 9, 2, 1, FALSE, FALSE),
            WireFrame("!INPSTATE", 15, 9, 7, 1, TRUE, FALSE)}

\* The poll of a gateway whose configuration does not change.
SteadyPoll == Poll("ok", "systemid", "1001", "100-1", "200-1", "names")

Connectors == {"start", "mon"} \X Calls

\* The application starts the session, and calls start() again only while
\* the receive loop is running.
AppStart(k) ==
    /\ k = 1 \/ Running
    /\ StartCall(k)

\* The connect loop and the receive loop.
ConnectNext ==
    \/ \E c \in Connectors : ConnectOk(c) /\ UNCHANGED refusals
    \/ \E c \in Connectors : ConnectFail(c) /\ UNCHANGED refusals
    \/ \E c \in Connectors : HandshakeReady(c) /\ UNCHANGED refusals
    \/ \E c \in Connectors : HandshakeRefused(c) /\ UNCHANGED refusals
    \/ \E c \in Connectors : HandshakeEOF(c)
    \/ \E c \in Connectors : BackoffTimeout(c)
    \/ \E k \in Calls : MonitorRun(k)
    \/ \E k \in Calls, f \in Frames : MonitorRecv(k, f)
    \/ \E k \in Calls : MonitorReadEnd(k)
    \/ \E k \in Calls : MonitorCloseDone(k)
    \/ \E n \in Conns : GatewayDrop(n) /\ UNCHANGED refusals
    \/ \E n \in Conns : GatewayIdleDrop(n)

\* The keep-alive loop when writing the probe raises, and the system-info
\* loop.
WatchdogNext ==
    \/ \E k \in Calls : KeepaliveSendFail(k)
    \/ \E k \in Calls : KeepaliveCloseDone(k)
    \/ \E k \in Calls, p \in QuietPolls : SysinfoTick(k, p)

\* The keep-alive loop when the probe is written, and the clock.
ProbeNext ==
    \/ \E k \in Calls : KeepaliveSend(k)
    \/ \E k \in Calls : KeepaliveEval(k)
    \/ Tick

\* The application's calls.
AppNext ==
    \/ \E k \in Calls : AppStart(k)
    \/ \E j \in StopCalls : StopCall(j)
    \/ \E j \in StopCalls : StopCloseDone(j)
    \/ \E c \in Connectors : BackoffWake(c)

\* The life cycle of one session under SessionConfig: start(), stop(), the
\* connect loop, the receive loop and the two periodic loops.
Next == AppNext \/ ConnectNext \/ WatchdogNext

Spec == Init /\ [][Next]_vars

\* A session that is started and never stopped, with timed keep-alive
\* probes.
ProbeSpecNext ==
    \/ \E k \in Calls : AppStart(k)
    \/ ConnectNext
    \/ WatchdogNext
    \/ ProbeNext

ProbeSpec == Init /\ [][ProbeSpecNext]_vars

\* The connect and receive loops under every configuration the setup form
\* accepts.
BackoffNext == AppNext \/ ConnectNext

BackoffSpec == InitAnyConfig /\ [][BackoffNext]_vars

\* ------------------------------------------------------------------
\* One session of an installation that is discovered once: the receive
\* loop handles the gateway's reports while the application commands the
\* entities.
EntityNext ==
    \/ AppStart(1)
    \/ SetupPoll(SteadyPoll)
    \/ \E c \in Connectors : ConnectOk(c) /\ UNCHANGED refusals
    \/ \E c \in Connectors : HandshakeReady(c) /\ UNCHANGED refusals
    \/ \E k \in Calls : MonitorRun(k)
    \/ \E k \in Calls, f \in EntityFrames : MonitorRecv(k, f)
    \/ \E kind \in Collections, cb \in CallbackNames : RegisterCallback(kind, cb)
    \/ \E kind \in Collections, cb \in CallbackNames : RemoveCallback(kind, cb)
    \/ \E i \in DOMAIN ent, cmd \in AllCommands, L \in Intensities,
          raised \in BOOLEAN : EntityCommand(i, cmd, L, raised)

EntitySpec == Init /\ [][EntityNext]_vars

\* The same session on a gateway that drops connections, so that the
\* entities live through reconnections.
ReconnectFrames ==
    {WireFrame("!CHANLEVEL", 12, 12, 3, 180, FALSE, TRUE),
     WireFrame("!INPSTATE", 15, 9, 2, 1, TRUE, FALSE)}

ReconnectNext ==
    \/ AppStart(1)
    \/ SetupPoll(SteadyPoll)
    \/ \E c \in Connectors : ConnectOk(c) /\ UNCHANGED refusals
    \/ \E c \in Connectors : HandshakeReady(c) /\ UNCHANGED refusals
    \/ \E c \in Connectors : HandshakeEOF(c)
    \/ \E c \in Connectors : BackoffTimeout(c)
    \/ \E k \in Calls : MonitorRun(k)
    \/ \E k \in Calls, f \in ReconnectFrames : MonitorRecv(k, f)
    \/ \E k \in Calls : MonitorReadEnd(k)
    \/ \E k \in Calls : MonitorCloseDone(k)
    \/ \E n \in Conns : GatewayDrop(n) /\ UNCHANGED refusals
    \/ \E n \in Conns : GatewayIdleDrop(n)
    \/ \E cb \in CallbackNames : RegisterCallback("light", cb)
    \/ \E i \in DOMAIN ent, cmd \in AllCommands, L \in Intensities,
          raised \in BOOLEAN : EntityCommand(i, cmd, L, raised)

ReconnectSpec == Init /\ [][ReconnectNext]_vars

\* The same session with its system-info loop polling a gateway whose
\* configuration changes and whose HTTP interface fails at times.
PollNext ==
    \/ AppStart(1)
    \/ \E p \in Polls : SetupPoll(p)
    \/ \E c \in Connectors : ConnectOk(c) /\ UNCHANGED refusals
    \/ \E c \in Connectors : HandshakeReady(c) /\ UNCHANGED refusals
    \/ \E k \in Calls : MonitorRun(k)
    \/ \E k \in Calls, f \in ReconnectFrames : MonitorRecv(k, f)
    \/ \E cb \in CallbackNames : RegisterCallback("light", cb)
    \/ \E k \in Calls, p \in Polls : SysinfoTick(k, p)
    \/ DiscoverCall

PollSpec == Init /\ [][PollNext]_vars

\* ------------------------------------------------------------------
\* The discovered session with callbacks that subscribe and unsubscribe
\* while they are called.
CallbackFrames ==
    {WireFrame("!CHANLEVEL", 12, 12, 3, v, FALSE, TRUE) : v \in {0, 180}}
      \cup {WireFrame("!CHANLEVEL", 13, 16, 1, 255, FALSE, TRUE),
            WireFrame("!INPSTATE", 15, 9, 2, 1, TRUE, FALSE)}

CallbackNext ==
    \/ AppStart(1)
    \/ SetupPoll(SteadyPoll)
    \/ \E c \in Connectors : ConnectOk(c) /\ UNCHANGED refusals
    \/ \E c \in Connectors : HandshakeReady(c) /\ UNCHANGED refusals
    \/ \E k \in Calls : MonitorRun(k)
    \/ \E k \in Calls, f \in CallbackFrames : MonitorRecv(k, f)
    \/ \E kind \in Collections, cb \in CallbackNames \cup ReentrantCallbacks :
          RegisterCallback(kind, cb)
    \/ \E kind \in Collections, cb \in CallbackNames \cup ReentrantCallbacks :
          RemoveCallback(kind, cb)

CallbackSpec == Init /\ [][CallbackNext]_vars

\* ------------------------------------------------------------------
\* A session whose gateway reports keypad buttons, before and after the
\* installation is discovered: buttons 1 and 2 of the wall plate at
\* address 20, a button at an address discovery does not know, a button
\* frame for the address and channel of the contact input, with state
\* codes with and without a name and a code that is not three characters
\* wide.
KeypadFrames ==
    {WireFrame("!BTNSTATE", 20, 2, c, v, TRUE, FALSE) : c \in {1, 2}, v \in {0, 1, 2, 5, 6, 7}}
      \cup {WireFrame("!BTNSTATE", 30, 2, 1, v, TRUE, FALSE) : v \in {1, 5}}
      \cup {WireFrame("!BTNSTATE", 15, 9, 2, 1, TRUE, FALSE),
            WireFrame("!BTNSTATE", 20, 2, 1, 1, FALSE, FALSE),
            WireFrame("!INPSTATE", 15, 9, 2, 0, TRUE, FALSE),
            WireFrame("!INPSTATE", 15, 9, 2, 1, TRUE, FALSE)}

KeypadNext ==
    \/ AppStart(1)
    \/ SetupPoll(SteadyPoll)
    \/ \E c \in Connectors : ConnectOk(c) /\ UNCHANGED refusals
    \/ \E c \in Connectors : HandshakeReady(c) /\ UNCHANGED refusals
    \/ \E k \in Calls : MonitorRun(k)
    \/ \E k \in Calls, f \in KeypadFrames : MonitorRecv(k, f)
    \/ \E cb \in CallbackNames : RegisterCallback("binary_sensor", cb)

KeypadSpec == Init /\ [][KeypadNext]_vars

\* ------------------------------------------------------------------
\* A session with two dimmer channels, one with a proxy scene and one
\* without, configured with the proxies in use or not: the application
\* commands the dimmers while the gateway reports their levels.
TwoDimmersPoll == Poll("ok", "systemid", "1001", "100-1", "200-1", "names_two")

ProxyFrames ==
    {WireFrame("!CHANLEVEL", 12, 12, c, v, FALSE, TRUE) : c \in {3, 4}, v \in {0, 180}}

ProxyNext ==
    \/ AppStart(1)
    \/ SetupPoll(TwoDimmersPoll)
    \/ \E c \in Connectors : ConnectOk(c) /\ UNCHANGED refusals
    \/ \E c \in Connectors : HandshakeReady(c) /\ UNCHANGED refusals
    \/ \E k \in Calls : MonitorRun(k)
    \/ \E k \in Calls, f \in ProxyFrames : MonitorRecv(k, f)
    \/ \E i \in DOMAIN ent, cmd \in AllCommands, L \in Intensities,
          raised \in BOOLEAN : EntityCommand(i, cmd, L, raised)

ProxySpec == InitProxy /\ [][ProxyNext]_vars

\* ------------------------------------------------------------------
\* A session whose button events have subscribers that come and go, also
\* while an event is being delivered: the gateway reports a keypad button
\* and the contact input.
SubscriberFrames ==
    {WireFrame("!BTNSTATE", 20, 2, 1, v, TRUE, FALSE) : v \in {1, 5, 7}}
      \cup {WireFrame("!INPSTATE", 15, 9, 2, v, TRUE, FALSE) : v \in {0, 1}}

SubscriberNext ==
    \/ AppStart(1)
    \/ SetupPoll(SteadyPoll)
    \/ \E c \in Connectors : ConnectOk(c) /\ UNCHANGED refusals
    \/ \E c \in Connectors : HandshakeReady(c) /\ UNCHANGED refusals
    \/ \E k \in Calls : MonitorRun(k)
    \/ \E k \in Calls, f \in SubscriberFrames : MonitorRecv(k, f)
    \/ \E cb \in Subscribers : RegisterButtonEventCallback(cb)
    \/ \E cb \in Subscribers : RemoveButtonEventCallback(cb)

SubscriberSpec == Init /\ [][SubscriberNext]_vars

\* ------------------------------------------------------------------
\* The discovered session on a gateway that drops connections, commanded
\* while it is online, while it is offline and while its socket is going
\* down: dimmers, relays and pulse buttons.
CommandNext ==
    \/ AppStart(1)
    \/ SetupPoll(SteadyPoll)
    \/ \E c \in Connectors : ConnectOk(c) /\ UNCHANGED refusals
    \/ \E c \in Connectors : HandshakeReady(c) /\ UNCHANGED refusals
    \/ \E k \in Calls : MonitorRun(k)
    \/ \E k \in Calls : MonitorReadEnd(k)
    \/ \E k \in Calls : MonitorCloseDone(k)
    \/ \E n \in Conns : GatewayDrop(n) /\ UNCHANGED refusals
    \/ \E kind \in Collections, cb \in CallbackNames : RegisterCallback(kind, cb)
    \/ \E i \in DOMAIN ent, cmd \in AllCommands \cup PulseCommands, L \in Intensities,
          raised \in BOOLEAN : EntityCommand(i, cmd, L, raised)

CommandSpec == Init /\ [][CommandNext]_vars

\* ------------------------------------------------------------------
\* A session whose application calls start() and stop() at any time, also
\* while an earlier call is still in flight.
OverlapNext ==
    \/ \E k \in Calls : StartCall(k)
    \/ \E j \in StopCalls : StopCall(j)
    \/ \E j \in StopCalls : StopCloseDone(j)
    \/ \E c \in Connectors : BackoffWake(c)
    \/ ConnectNext

OverlapSpec == Init /\ [][OverlapNext]_vars

\* ------------------------------------------------------------------
\* A session that is started and never stopped, on a gateway that lets at
\* most MaxRefusals connection attempts or connections fail.
Refusal(A) ==
    /\ refusals < MaxRefusals
    /\ A
    /\ refusals' = refusals + 1

LiveNext ==
    \/ \E k \in Calls : AppStart(k)
    \/ \E c \in Connectors : ConnectOk(c) /\ UNCHANGED refusals
    \/ \E c \in Connectors : Refusal(ConnectFail(c))
    \/ \E c \in Connectors : HandshakeReady(c) /\ UNCHANGED refusals
    \/ \E c \in Connectors : Refusal(HandshakeRefused(c))
    \/ \E c \in Connectors : HandshakeEOF(c)
    \/ \E c \in Connectors : BackoffTimeout(c)
    \/ \E k \in Calls : MonitorRun(k)
    \/ \E k \in Calls, f \in Frames : MonitorRecv(k, f)
    \/ \E k \in Calls : MonitorReadEnd(k)
    \/ \E k \in Calls : MonitorCloseDone(k)
    \/ \E n \in Conns : Refusal(GatewayDrop(n))
    \/ \E n \in Conns : GatewayIdleDrop(n)
    \/ WatchdogNext

\* The event loop runs every coroutine that is ready, every timer expires,
\* and the gateway answers a connection attempt and a subscription.
LiveFairness ==
    /\ \A c \in Connectors : WF_vars(ConnectOk(c) /\ UNCHANGED refusals)
    /\ \A c \in Connectors : WF_vars(HandshakeReady(c) /\ UNCHANGED refusals)
    /\ \A c \in Connectors : WF_vars(HandshakeEOF(c))
    /\ \A c \in Connectors : WF_vars(BackoffTimeout(c))
    /\ \A k \in Calls : WF_vars(MonitorRun(k))
    /\ \A k \in Calls : WF_vars(MonitorReadEnd(k))
    /\ \A k \in Calls : WF_vars(MonitorCloseDone(k))
    /\ \A k \in Calls : WF_vars(KeepaliveCloseDone(k))
    /\ \A n \in Conns : WF_vars(GatewayIdleDrop(n))

LiveSpec == Init /\ [][LiveNext]_vars /\ LiveFairness

\* ==================================================================
\* Properties
\* ==================================================================

Monitors == {"mon"} \X Calls

\* C1: a frame whose handling fails (missing or non-numeric fields, a
\* state code outside {0,1,2,5,6}, a device or status code absent from the
\* tables, a callback that raises) is confined to that frame: the receive
\* loop never terminates because of it.
C1_BadFrameDoesNotEndMonitorLoop ==
    \A c \in Monitors : pc[c] # "crashed"

\* ------------------------------------------------------------------
\* start() has returned and the session has not been stopped.
Started == pc[<<"start", 1>>] = "done" /\ ~npu._stop_event

\* C2: in a session that is started and never stopped, on a gateway that
\* eventually accepts connections and answers the subscription with the
\* ready token, an offline session eventually becomes online again.
C2_OfflineLeadsToOnline ==
    (Started /\ ~npu.online) ~> npu.online

\* ------------------------------------------------------------------
\* The step in which start() call k begins.
StartBegins(k) == pc[<<"start", k>>] = "idle" /\ pc'[<<"start", k>>] # "idle"

\* C3: start() called while the session is running and online returns at
\* once: no connection is opened, no subscription is sent, no task is
\* created, and the state of the session is unchanged.
C3_StartWhileRunningIsNoOp ==
    [][\A k \in Calls :
          (StartBegins(k) /\ Running /\ npu.online) =>
              /\ npu' = npu
              /\ conn' = conn
              /\ rd' = rd
              /\ pc' = [pc EXCEPT ![<<"start", k>>] = "done"]]_vars

C3_Witness ==
    /\ pc[<<"start", 2>>] = "done"
    /\ \A kind \in {"mon", "ka", "si"} : pc[<<kind, 2>>] = "none"
    /\ Running
    /\ npu.online
    /\ npu._monitor_task = 1

\* ------------------------------------------------------------------
\* The state stop() leaves behind.
Stopped(n) ==
    /\ ~n.online
    /\ n.reader = NoConn
    /\ n.writer = NoConn
    /\ n._monitor_task = NoConn
    /\ n._keepalive_task = NoConn
    /\ n._systeminfo_task = NoConn

\* The step in which stop() call j returns.
StopReturns(j) == stopPc[j] # "done" /\ stopPc'[j] = "done"

\* C4: a stop() call that no start() call overlaps returns, from any
\* state, with online false, reader and writer absent and no background
\* task registered; and a stop() call made on a stopped session returns at
\* once and leaves the state as the first one left it.
C4_StopLeavesSessionStopped ==
    [][\A j \in StopCalls :
          /\ (StopReturns(j) /\ j \notin racedStops') => Stopped(npu')
          /\ (/\ stopPc[j] = "idle" /\ stopPc'[j] # "idle"
              /\ Stopped(npu) /\ npu._stop_event
              /\ ~StartInFlight
              /\ \A i \in StopCalls : stopPc[i] # "closing")
             => /\ stopPc'[j] = "done"
                /\ npu' = npu
                /\ pc' = pc
                /\ conn' = conn]_vars

C4_Witness ==
    /\ pc[<<"start", 1>>] = "done"
    /\ stopPc[1] = "done"
    /\ stopPc[2] = "done"
    /\ racedStops = {}
    /\ Stopped(npu)
    /\ \A c \in DOMAIN pc : pc[c] \in {"idle", "none", "done", "crashed"}

\* ------------------------------------------------------------------
\* C5: the stop signal raised while a connect loop waits out its backoff
\* delay ends the wait in that very step, and the connect loop then
\* returns without another connection attempt, another wait or a change of
\* the delay.
C5_StopWakesBackoff ==
    [][\A c \in Connectors :
          /\ (pc[c] = "backoff" /\ ~npu._stop_event /\ npu'._stop_event)
             => pc'[c] \in {"woken", "done"}
          /\ (pc[c] = "woken" /\ pc'[c] # "woken")
             => /\ pc'[c] \notin {"opening", "hs_read", "backoff"}
                /\ \A n \in Conns : conn'[n] = "open" => conn[n] = "open"
                /\ npu'._reconnect_delay = npu._reconnect_delay]_vars

C5_Witness ==
    \E c \in Connectors :
        /\ pc[c] = "woken"
        /\ npu._stop_event
        /\ ~npu.online
        /\ \E j \in StopCalls : stopPc[j] = "done"

\* ------------------------------------------------------------------
\* C6: under every configuration the initial setup form accepts, the
\* backoff delay never exceeds max_reconnect_delay.
C6_DelayAtMostMax ==
    npu._reconnect_delay <= config.max_reconnect_delay

\* ------------------------------------------------------------------
\* The step in which a connection attempt fails (open_connection raises,
\* the ready frame is empty or is not the ready token) and the connect
\* loop goes on to wait for npu'._reconnect_delay.
AttemptFails ==
    \E c \in Connectors :
        /\ pc[c] \in {"opening", "hs_read"}
        /\ pc'[c] \in {"backoff", "woken"}

\* C7: across consecutive failed attempts with no successful handshake in
\* between, the backoff delay is monotone non-decreasing: a failed attempt
\* never waits for less than the failed attempt before it.
C7_DelayMonotoneAcrossFailures ==
    [][(AttemptFails /\ lastWait # 0) => npu'._reconnect_delay >= lastWait]_vars

\* ------------------------------------------------------------------
\* A receive loop is reading the session's current connection.
OnlineAfterHandshake ==
    /\ npu.online
    /\ \E c \in Monitors : pc[c] = "reading" /\ rd[c] = npu.reader

\* C8: the backoff delay is put back to the configured minimum upon a
\* successful handshake and only then: it is the minimum whenever the
\* session is online after a handshake, the first retry wait after a
\* handshake uses the minimum, and a failed attempt that follows a failed
\* attempt waits for the doubled, capped delay.
C8_DelayResetOnlyOnHandshake ==
    /\ [][AttemptFails =>
             npu'._reconnect_delay =
                 IF lastWait = 0 THEN config.reconnect_delay
                 ELSE Min(lastWait * 2, config.max_reconnect_delay)]_vars
    /\ [](OnlineAfterHandshake => npu._reconnect_delay = config.reconnect_delay)

\* ------------------------------------------------------------------
\* C9: reader and writer are both present or both absent.
C9_ReaderWriterPaired ==
    (npu.reader = NoConn) <=> (npu.writer = NoConn)

\* The watchdog forced a disconnect under a receive loop that is still
\* reading the connection.
C9_Witness ==
    /\ npu.reader = NoConn
    /\ npu.writer = NoConn
    /\ \E c \in Monitors : pc[c] = "reading" /\ conn[rd[c]] = "closed"

\* ------------------------------------------------------------------
\* Section 4.2: what satisfies the probe of keep-alive loop k: an
\* acknowledgement at or after its send time, or one within timeout plus
\* grace of the present.
AckSatisfies(k) ==
    /\ npu.last_keepalive_ack # NoTime
    /\ \/ npu.last_keepalive_ack >= sentAt[k]
       \/ now - npu.last_keepalive_ack <= DEFAULT_KEEP_ALIVE_TIMEOUT + KEEP_ALIVE_GRACE

\* The step in which keep-alive loop k evaluates its probe.
ProbeEvaluated(k) == pc[<<"ka", k>>] = "ack_sleep" /\ pc'[<<"ka", k>>] # "ack_sleep"

\* The step in which writing the probe of keep-alive loop k raised.
ProbeSendFailed(k) ==
    /\ pc[<<"ka", k>>] = "wait"
    /\ pc'[<<"ka", k>>] \in {"wait", "closing"}
    /\ npu.online
    /\ npu.writer # NoConn
    /\ conn[npu.writer] # "open"

\* The counter after one more failure: the forced disconnect that a full
\* counter triggers puts it back to zero once the socket is closed.
CountedOnce(k) ==
    \/ npu'.comms_retry_attempts = npu.comms_retry_attempts + 1
    \/ /\ npu.comms_retry_attempts + 1 >= DEFAULT_MAX_RETRY_ATTEMPTS
       /\ pc'[<<"ka", k>>] # "closing"
       /\ npu'.comms_retry_attempts = 0

\* C10: a probe that fails (its send raises, or it is unsatisfied when its
\* timeout elapses, in particular when no acknowledgement was ever
\* received) is counted exactly once; a satisfied probe is never counted;
\* and the counter never grows in any other step.
C10_FailedProbeCountedOnce ==
    [][/\ \A k \in Calls :
            /\ (ProbeEvaluated(k) /\ ~AckSatisfies(k)) => CountedOnce(k)
            /\ (ProbeEvaluated(k) /\ AckSatisfies(k))
               => npu'.comms_retry_attempts <= npu.comms_retry_attempts
       /\ npu'.comms_retry_attempts > npu.comms_retry_attempts
          => /\ npu'.comms_retry_attempts = npu.comms_retry_attempts + 1
             /\ \E k \in Calls :
                    \/ ProbeEvaluated(k) /\ ~AckSatisfies(k)
                    \/ ProbeSendFailed(k)]_vars

\* A probe timed out on a live connection with no acknowledgement ever
\* received, and it is the only failure so far.
C10_Witness ==
    /\ npu.comms_retry_attempts = 1
    /\ npu.last_keepalive_ack = NoTime
    /\ npu.online
    /\ npu.writer # NoConn
    /\ conn[npu.writer] = "open"
    /\ \E k \in Calls : pc[<<"ka", k>>] = "wait"

\* ------------------------------------------------------------------
\* The step in which the dispatcher observes an !OK; acknowledgement.
AckObserved ==
    /\ npu'.last_keepalive_ack = now
    /\ npu'.last_keepalive_ack # npu.last_keepalive_ack

\* Keep-alive loop k is the session's, it has evaluated the probe it sent
\* last, and the connection that probe went out on is still the session's
\* open connection.
ProbeAlreadyEvaluated(k) ==
    /\ npu._keepalive_task = k
    /\ pc[<<"ka", k>>] = "wait"
    /\ sentAt[k] # NoTime
    /\ npu.online
    /\ npu.writer # NoConn
    /\ conn[npu.writer] = "open"

\* C11: an acknowledgement observed at or after the send time of the most
\* recent probe resets the consecutive-failure counter to zero: at the
\* probe's evaluation when it arrived before that, and in the step that
\* observes it when it arrives after the probe has been evaluated.
C11_AckResetsCounter ==
    [][\A k \in Calls :
          /\ (AckObserved /\ ProbeAlreadyEvaluated(k))
             => npu'.comms_retry_attempts = 0
          /\ (/\ ProbeEvaluated(k)
              /\ npu.last_keepalive_ack # NoTime
              /\ npu.last_keepalive_ack >= sentAt[k])
             => npu'.comms_retry_attempts = 0]_vars

\* ------------------------------------------------------------------
\* The watchdog of keep-alive loop k has closed the socket and awaits
\* wait_closed.
ForcedClose(k) == pc[<<"ka", k>>] = "closing"

\* A receive loop is in the connect loop, attempting a connection.
ReconnectAttempt == \E c \in Monitors : pc[c] \in {"opening", "hs_read"}

\* C12: when the consecutive-failure counter reaches the maximum the
\* watchdog force-closes the socket, then clears both handles, sets the
\* session offline and resets the counter; and the receive loop then makes
\* a reconnection attempt.
C12_EscalationLeadsToReconnect ==
    /\ [](npu.comms_retry_attempts >= DEFAULT_MAX_RETRY_ATTEMPTS
            => \E k \in Calls : ForcedClose(k))
    /\ [][\A k \in Calls :
            (ForcedClose(k) /\ pc'[<<"ka", k>>] = "wait")
               => /\ npu'.reader = NoConn
                  /\ npu'.writer = NoConn
                  /\ ~npu'.online
                  /\ npu'.comms_retry_attempts = 0]_vars
    /\ (\E k \in Calls : ForcedClose(k)) ~> ReconnectAttempt

\* ------------------------------------------------------------------
Lights == {i \in DOMAIN ent : i[1] = "light"}

\* C13: whatever state frames were handled and whatever turn_on, turn_off
\* and set_brightness(L) commands were issued, every dimmer's brightness is
\* unknown exactly when its on/off state is unknown, and otherwise the
\* dimmer is on exactly when its brightness is above zero.
C13_DimmerStateConsistent ==
    \A i \in Lights :
        /\ (ent[i].brightness = NoLevel) <=> (ent[i].is_on = "unknown")
        /\ ent[i].is_on # "unknown" => ent[i].is_on = OnOff(ent[i].brightness > 0)

\* A command written to the socket has set a dimmer to brightness 1.
C13_Witness ==
    \E i \in Lights :
        /\ out.op = "command"
        /\ out.entity = i
        /\ out.sent
        /\ ent[i].brightness = 1
        /\ ent[i].is_on = "on"

\* ------------------------------------------------------------------
\* The step in which the receive loop handles frame f.
FrameStep(f) ==
    /\ \E k \in Calls : pc[<<"mon", k>>] = "reading"
    /\ ent' = HandleEntities(ent, f)
    /\ out' = FrameOutput(ent, npu, f)
    /\ out'.op = "frame"

\* How often the recorded output o called callback cb of entity i.
Count(o, i, cb) == IF <<i, cb>> \in DOMAIN o.invoked THEN o.invoked[<<i, cb>>] ELSE 0

\* The entities a level report for (address, channel) is about.
Addressed(i, f) == i[1] \in {"light", "switch"} /\ Matches(i, f)

\* C14: a !CHANFADE / !CHANLEVEL frame for (a, c) with level L sets every
\* dimmer at (a, c) to brightness L and on exactly when L > 0, sets every
\* relay at (a, c) on exactly when L > 0, calls every callback registered
\* on those entities exactly once, and changes the state of no other
\* entity and calls no other callback.
C14_LevelReportSetsAddressed ==
    [][\A f \in EntityFrames : (ChannelFrame(f) /\ FrameStep(f)) =>
          /\ \A i \in DOMAIN ent :
                IF Addressed(i, f)
                THEN /\ ent'[i].is_on = OnOff(f.code > 0)
                     /\ i[1] = "light" => ent'[i].brightness = f.code
                ELSE ent'[i] = ent[i]
          /\ \A i \in DOMAIN ent, cb \in CallbackNames :
                Count(out', i, cb) =
                    IF Addressed(i, f) /\ cb \in ent[i].callbacks THEN 1 ELSE 0]_vars

\* ------------------------------------------------------------------
Sensors == {i \in DOMAIN ent : i[1] = "binary_sensor"}

\* An !INPSTATE frame whose state code is one of the five named codes, in
\* the three-digit form the handler reads it in.
StateReport(f) ==
    /\ f.type = "!INPSTATE"
    /\ f.numeric
    /\ f.code \in {0, 1, 2, 5, 6}

PollStep(p) ==
    /\ \E k \in Calls : pc[<<"si", k>>] = "wait"
    /\ npu.online
    /\ out'.op = "poll"
    /\ out'.poll = p
    /\ out' # out

\* A poll that yields a fingerprint and a names payload that parses.
YieldsFingerprint(p) ==
    p.http = "ok" /\ p.levels = "systemid" /\ p.names = "names"

\* The fingerprint the session holds: that of the previous poll that
\* yielded one, as long as every change of it was followed by discovery.
Fingerprint(n) == <<n.serial_num, n.edit_stamp, n.adjust_stamp>>

\* C16: after a poll that yields a fingerprint, discovery runs exactly when
\* the (serial, edit stamp, adjust stamp) tuple differs from that of the
\* previous poll, a change of the serial number alone included; with an
\* unchanged tuple every collection is left as it was.
C16_DiscoveryIffFingerprintChanged ==
    [][\A p \in Polls : (YieldsFingerprint(p) /\ PollStep(p)) =>
          IF <<p.serial, p.edit_stamp, p.adjust_stamp>> # Fingerprint(npu)
          THEN ent' = DiscoverChannels(NamesOf(p.names), p.serial, npu.writer)
          ELSE ent' = ent]_vars

\* ------------------------------------------------------------------
\* A poll that fails: the HTTP request fails, the levels payload has no
\* !SYSTEMID line, or discovery raises on the names payload.
FailingPoll(n, p) ==
    \/ p.http = "error"
    \/ p.http = "ok" /\ p.levels = "nosystemid"
    \/ /\ p.http = "ok"
       /\ p.levels = "systemid"
       /\ p.names = "names_bad"
       /\ <<p.edit_stamp, p.adjust_stamp>> # <<n.edit_stamp, n.adjust_stamp>>

\* The TCP side of the session: the handles, the online flag and the
\* receive loops.
TcpSession == <<npu.reader, npu.writer, npu.online, [k \in Calls |-> pc[<<"mon", k>>]]>>

\* C17: a poll that fails does not end the system-info loop, which goes on
\* to wait for its next interval, and does not change the TCP session.
C17_FailingPollKeepsLoop ==
    [][\A p \in Polls : (FailingPoll(npu, p) /\ PollStep(p)) =>
          /\ \A k \in Calls : pc[<<"si", k>>] = "wait" => pc'[<<"si", k>>] = "wait"
          /\ TcpSession' = TcpSession]_vars

\* ------------------------------------------------------------------
\* The connection side of the session: the handles, the online flag and
\* the state of every connection.
Link == <<npu.reader, npu.writer, npu.online, conn>>

\* The socket the receive loop of the session is reading from.
CurrentSocket(n) == \E k \in Calls : pc[<<"mon", k>>] = "reading" /\ rd[<<"mon", k>>] = n

\* The step in which a command of entity i is written.
CommandStep(i) ==
    /\ out'.op = "command"
    /\ out'.entity = i
    /\ out' # out

Catalogue(e, n) ==
    [entities |-> {<<i[1], IdentityKey(e, i), e[i].name, e[i].area>> : i \in DOMAIN e},
     scenes |-> n.scenes,
     proxies |-> n.chan_to_scn_proxy]

\* The step in which discover() is called on the payloads held.
DiscoverStep == out'.op = "discover" /\ out'.seq # out.seq

\* The step in which discovery runs: called directly, or by a poll whose
\* stamps changed.
DiscoveryRuns ==
    \/ DiscoverStep
    \/ \E p \in Polls : YieldsFingerprint(p) /\ PollStep(p) /\ FingerprintChanged(npu, p)

AwaitingReady ==
    \E c \in Connectors : pc[c] = "hs_read" /\ rd[c] = npu.writer

\* C20: while the reply to the registration is awaited on the current
\* socket the session is not online; online is true only once !GATRDY;
\* was read on that socket.
C20_OnlineOnlyAfterReady == AwaitingReady => ~npu.online

\* ------------------------------------------------------------------
\* The step in which connector c reads a reply to $EVENTS,1; that is empty
\* or is not the ready token, and abandons the attempt.
HandshakeFails(c) == pc[c] = "hs_read" /\ pc'[c] \in {"backoff", "woken"}

\* The step in which the retry wait of connector c times out.
BackoffElapses(c) ==
    /\ pc[c] = "backoff"
    /\ pc'[c] # "backoff"
    /\ ~npu'._stop_event

\* C21: a handshake that fails does not end the connect loop and leaves
\* the session offline, waiting for the reconnect delay; when the delay has
\* elapsed the loop makes a new connection attempt.
C21_FailedHandshakeRetries ==
    /\ [][\A c \in Connectors :
            (pc[c] = "hs_read" /\ pc'[c] # "hs_read") =>
                /\ pc'[c] # "crashed"
                /\ HandshakeFails(c) => ~npu'.online]_vars
    /\ [][\A c \in Connectors : BackoffElapses(c) => pc'[c] = "opening"]_vars

\* A connect loop is making a new attempt after a handshake failed on a
\* socket that is still open: the session is offline.
C21_Witness ==
    \E c \in Connectors :
        /\ pc[c] = "opening"
        /\ lastWait > 0
        /\ ~npu.online
        /\ npu.writer # NoConn
        /\ conn[npu.writer] = "open"

\* ------------------------------------------------------------------
\* The step in which the read of receive loop c raises or returns EOF.
ReadEnds(c) ==
    /\ pc[c] = "reading"
    /\ conn[rd[c]] # "open"
    /\ pc'[c] # "reading"
    /\ ~npu'._stop_event

\* The step in which receive loop c, after a read that ended, starts its
\* next connection attempt.
NextAttempt(c) ==
    /\ \/ ReadEnds(c)
       \/ pc[c] = "closing"
    /\ pc'[c] = "opening"

\* A socket that has been closed (and may have been released since).
Closed(cn, n) == cn[n] \in {"closed", "unused"}

C23_HandlesOnlyWhileOnline ==
    (npu.reader # NoConn \/ npu.writer # NoConn) => npu.online

\* ------------------------------------------------------------------
\* The step in which a teardown that was waiting in wait_closed goes on:
\* that of keep-alive loop or receive loop c, or that of stop() call j.
LoopTeardownEnds(c) ==
    /\ pc[c] = "closing"
    /\ pc'[c] # "closing"
    /\ stopPc' = stopPc
StopTeardownEnds(j) == stopPc[j] = "closing" /\ stopPc'[j] = "done"
TeardownEnds ==
    \/ \E c \in {"ka", "mon"} \X Calls : LoopTeardownEnds(c)
    \/ \E j \in StopCalls : StopTeardownEnds(j)

\* The session holds a connection that no teardown has closed: one the
\* connect loop established after every pending teardown began.
HoldsNewer == npu.writer # NoConn /\ conn[npu.writer] # "closed"

\* C24: a teardown that was waiting for its socket to close leaves a newer
\* connection alone: it does not clear its handles, close it or mark the
\* session offline.
C24_TeardownSparesNewerConnection ==
    [][(TeardownEnds /\ HoldsNewer) =>
          /\ npu'.reader = npu.reader
          /\ npu'.writer = npu.writer
          /\ npu'.online = npu.online
          /\ conn'[npu.writer] = conn[npu.writer]]_vars

\* ------------------------------------------------------------------
\* The coroutines that are awaiting readline() on connection n.
Readers(n) == {c \in DOMAIN rd : rd[c] = n}

\* The step in which receive loop c calls readline() on a reader another
\* coroutine is awaiting, which raises.
ReadRefused(c) == pc[c] \notin {"reading", "crashed"} /\ pc'[c] = "crashed"

\* C25: at most one coroutine reads from a connection at a time, and the
\* receive loop never calls readline() on a reader that another coroutine
\* is still awaiting.
C25_SoleReader ==
    /\ [](\A n \in Conns : Cardinality(Readers(n)) <= 1)
    /\ [][\A c \in Monitors : ~ReadRefused(c)]_vars

\* ------------------------------------------------------------------
\* stop() has been called, every stop() call made has returned, and
\* start() has not been called since (start() clears the stop event at
\* line 266, stop() sets it at line 277).
StopReturned ==
    /\ npu._stop_event
    /\ \E j \in StopCalls : stopPc[j] = "done"
    /\ \A j \in StopCalls : stopPc[j] # "closing"

\* The background loops, by the start() call that created them.
Loops == {"mon", "ka", "si"} \X Calls

\* C26: once stop() has returned and until start() is called again the
\* session is offline, holds no open socket, its three background loops
\* have ended and no connection attempt is in progress.
C26_StoppedStaysStopped ==
    StopReturned =>
        /\ ~npu.online
        /\ \A n \in Conns : conn[n] \notin {"open", "peer_closed"}
        /\ \A c \in Loops : TaskDone(pc[c])
        /\ \A c \in Connectors : pc[c] \notin {"opening", "hs_read", "backoff"}

\* ------------------------------------------------------------------
\* The rule for a tick sent at S and evaluated at E, with the latest
\* acknowledgement at A.
TickSatisfied(A, S, E) ==
    /\ A # NoTime
    /\ \/ A >= S
       \/ A < S /\ E - A <= DEFAULT_KEEP_ALIVE_TIMEOUT + KEEP_ALIVE_GRACE

\* C27: a keep-alive tick sent at S and evaluated at E = S + timeout puts
\* the counter to zero exactly when the latest acknowledgement A is at or
\* after S, or before S and no more than timeout + 1 s before E; with no
\* acknowledgement at all, or an older one, it counts as one failure.
C27_TickSatisfiedExactly ==
    [][\A k \in Calls :
          (ProbeEvaluated(k) /\ now = sentAt[k] + DEFAULT_KEEP_ALIVE_TIMEOUT) =>
              IF TickSatisfied(npu.last_keepalive_ack, sentAt[k], now)
              THEN npu'.comms_retry_attempts = 0
              ELSE /\ CountedOnce(k)
                   /\ npu.comms_retry_attempts + 1 < DEFAULT_MAX_RETRY_ATTEMPTS
                         => npu'.comms_retry_attempts > 0]_vars

\* A tick was evaluated just now, on a live connection, with the latest
\* acknowledgement one second older than its send: the grace satisfied it.
C27_Witness ==
    \E k \in Calls :
        /\ pc[<<"ka", k>>] = "wait"
        /\ sentAt[k] = now - DEFAULT_KEEP_ALIVE_TIMEOUT
        /\ npu.last_keepalive_ack = sentAt[k] - 1
        /\ npu.comms_retry_attempts = 0
        /\ npu.online
        /\ npu.writer # NoConn
        /\ conn[npu.writer] = "open"

\* ------------------------------------------------------------------
\* A poll whose fingerprint differs from the one held and whose names
\* payload has a record discovery cannot parse.
ChangeWithFailingDiscovery(n, p) ==
    /\ p.http = "ok"
    /\ p.levels = "systemid"
    /\ FingerprintChanged(n, p)
    /\ \E l \in NamesOf(p.names) : LineRaises(l)

\* C28: when discovery fails after a poll detected a changed fingerprint,
\* the change stays pending: the system-info loop goes on, and a next poll
\* that gets the same fingerprint detects the change again and runs
\* discovery.
C28_FailedDiscoveryIsRetried ==
    [][\A p \in Polls :
          (PollStep(p) /\ ChangeWithFailingDiscovery(npu, p)) =>
              /\ FingerprintChanged(npu', p)
              /\ \E k \in Calls : pc'[<<"si", k>>] = "wait"]_vars

\* ------------------------------------------------------------------
\* What frame dispatch and entity commands look up: the entities of every
\* collection, the scenes, the scene-proxy map and the area map.
Graph(e, n) == [catalogue |-> Catalogue(e, n), areas |-> n.areas]

\* The graph a complete discovery pass over the payloads held by n yields.
FreshGraph(n, w) ==
    [catalogue |->
        [entities |->
            LET e == DiscoverChannels(NamesOf(n.info_what_names), n.serial_num, w)
            IN  {<<i[1], IdentityKey(e, i), e[i].name, e[i].area>> : i \in DOMAIN e},
         scenes |-> DiscoverScenes(BlocksOf(n.info_what_levels)),
         proxies |-> MapChansToScns(BlocksOf(n.info_what_levels))],
     areas |-> DiscoverAreas(n.info_what_levels)]

\* C29: the collections, the scenes, the area map and the scene-proxy map
\* change only together, in one step, to the result of a complete
\* discovery pass; a pass that raises part-way changes none of them.
C29_DiscoverySwapsAtomically ==
    [][Graph(ent', npu') # Graph(ent, npu) =>
          /\ \A l \in NamesOf(npu'.info_what_names) : ~LineRaises(l)
          /\ Graph(ent', npu') = FreshGraph(npu', npu.writer)]_vars

\* ------------------------------------------------------------------
\* The records of a names payload that can yield an entity: the device
\* code is in the product-name table and the area id is defined.
Usable(lines) ==
    {l \in lines : l.devcode \in DEVCODE_TO_PRODNAME /\ l.areanum \in DOMAIN Areas}

\* C30: a discovery pass over a names payload with records of an
\* unsupported or unknown device code, or of an undefined area, skips
\* those records and completes: every other record yields its entity.
C30_BadRecordIsSkipped ==
    [][\A p \in Polls :
          (/\ PollStep(p)
           /\ p.http = "ok"
           /\ p.levels = "systemid"
           /\ FingerprintChanged(npu, p)) =>
              /\ ent' = DiscoverChannels(Usable(NamesOf(p.names)), p.serial, npu.writer)
              /\ \E k \in Calls : pc'[<<"si", k>>] = "wait"]_vars

\* ------------------------------------------------------------------
\* C31: register_callback and remove_callback may be called from inside a
\* callback that the dispatch of a state frame is calling: whenever the
\* receive loop handles a well-formed frame for an entity on which such a
\* callback is registered, the dispatch completes and the loop goes on to
\* read the next frame.
C31_CallbacksMayResubscribe ==
    [][\A k \in Calls, f \in CallbackFrames :
          (/\ pc[<<"mon", k>>] = "reading"
           /\ out'.op = "frame" /\ out'.frame = f
           /\ ~HandlerRaises(f) /\ ~EntityRaises(ent, f)
           /\ \E i \in Notified(ent, f) :
                 ent[i].callbacks \cap ReentrantCallbacks # {})
            => pc'[<<"mon", k>>] = "reading"]_vars

\* ------------------------------------------------------------------
\* A !BTNSTATE frame whose state code is one of the five named codes, in
\* the three-digit form the handler reads it in.
ButtonReport(f) ==
    /\ f.type = "!BTNSTATE"
    /\ f.numeric
    /\ f.code \in {0, 1, 2, 5, 6}

Proxied(i) ==
    /\ config.use_chan_to_scn_proxy
    /\ <<i[2], i[3]>> \in DOMAIN npu.chan_to_scn_proxy

\* The scene command that stands for a dimmer command.
SceneVerb(cmd) ==
    CASE cmd = "turn_on" -> "$SCNRECALL"
      [] cmd = "turn_off" -> "$SCNOFF"
      [] cmd = "set_brightness" -> "$SCNRECALLX"

\* C33: for every dimmer and every command (turn_on, turn_off,
\* set_brightness(L)) the resulting is_on and brightness are the same
\* whether or not the channel has an entry in the proxy map and whether or
\* not the proxies are in use; the map changes only the message written
\* ($SCNRECALL / $SCNRECALLX / $SCNOFF of the proxy scene instead of
\* $ChanFade of the channel), and a level report is applied the same way
\* in both cases.
C33_ProxyChangesOnlyTheWire ==
    /\ [][\A i \in Lights : (CommandStep(i) /\ out'.sent) =>
              LET cmd == out'.call[1]
                  L == out'.call[2]
              IN  /\ ent'[i].is_on = OnOff(L > 0)
                  /\ ent'[i].brightness = L
                  /\ \A j \in DOMAIN ent \ {i} : ent'[j] = ent[j]
                  /\ npu' = npu
                  /\ IF Proxied(i)
                     THEN /\ out'.wire[1] = SceneVerb(cmd)
                          /\ out'.wire[2] = npu.chan_to_scn_proxy[<<i[2], i[3]>>].scene
                     ELSE out'.wire = <<"$ChanFade", i[2], 12, i[3], L, 0>>]_vars
    /\ [][\A f \in ProxyFrames, i \in Lights : (FrameStep(f) /\ Matches(i, f)) =>
              /\ ent'[i].is_on = OnOff(f.code > 0)
              /\ ent'[i].brightness = f.code]_vars

\* A dimmer with a proxy scene was set to level 1 through that scene.
C33_Witness ==
    /\ out.op = "command"
    /\ out.sent
    /\ out.entity = <<"light", 12, 3>>
    /\ Proxied(out.entity)
    /\ out.wire = <<"$SCNRECALLX", 3, 1, 700>>
    /\ ent[out.entity].brightness = 1
    /\ ent[out.entity].is_on = "on"

\* ------------------------------------------------------------------
\* C34: each button / input event is delivered exactly once to every
\* subscriber registered at the moment of the dispatch, as the payload of
\* identity key and event name; a subscriber that raises neither keeps
\* the event from the other subscribers nor ends the receive loop, and
\* subscribers may register and unregister during the dispatch.
C34_EventReachesEverySubscriber ==
    [][\A f \in SubscriberFrames : (FrameStep(f) /\ out'.events # << >>) =>
          /\ Len(out'.events) = 1
          /\ DOMAIN out'.events[1] = {"device_uuid", "type"}
          /\ DOMAIN out'.delivered = npu._button_event_callbacks
          /\ \A s \in npu._button_event_callbacks : out'.delivered[s] = out'.events
          /\ \A k \in Calls : pc'[<<"mon", k>>] = pc[<<"mon", k>>]]_vars

\* An event went to a subscriber that raises, to one that unsubscribed
\* meanwhile and to the bridge, and the receive loop reads on.
C34_Witness ==
    /\ out.op = "frame"
    /\ Len(out.events) = 1
    /\ DOMAIN out.delivered = {"_handle_button_event", "raises", "unsubscribes"}
    /\ "unsubscribes" \notin npu._button_event_callbacks
    /\ \E k \in Calls : pc[<<"mon", k>>] = "reading"

\* ------------------------------------------------------------------
\* tcp_force_state_inform (lines 1077-1083) sends no state query while the
\* session has no writer: a sensor that discovery created then was never
\* asked for its state.
NeverQueried(i) == ent[i].created_on = NoConn

\* C35: the priming suppression consumes only the reply to the state query
\* that discovery issued for the sensor: an !INPSTATE frame for a sensor
\* that discovery created while the session was offline, so that no state
\* query was sent, comes from a real change of the input and yields an
\* event.
C35_RealInputChangeIsAnnounced ==
    [][\A f \in ReconnectFrames, i \in Sensors :
          (StateReport(f) /\ Matches(i, f) /\ FrameStep(f) /\ NeverQueried(i)) =>
              out'.events # << >>]_vars

\* ------------------------------------------------------------------
\* The connections the session has opened and not closed.
Held == {n \in Conns : conn[n] \in {"open", "peer_closed"}}

\* C36: at any time the session holds at most one open TCP connection:
\* every connection it opened is closed before another one is opened or
\* when it is abandoned, so none is leaked across failures and retries.
C36_AtMostOneConnection == Cardinality(Held) <= 1

\* ------------------------------------------------------------------
\* The instances of a background loop that are running.
Instances(kind) ==
    {k \in Calls : pc[<<kind, k>>] # "none" /\ ~TaskDone(pc[<<kind, k>>])}

\* C37: at any time at most one instance of each background loop (receive,
\* keep-alive, system-info) is running, for every sequence of start() and
\* stop() calls, also when start() is called after the receive loop has
\* ended while the other two loops run on, and when two start() calls
\* overlap.
C37_OneInstancePerLoop ==
    \A kind \in {"mon", "ka", "si"} : Cardinality(Instances(kind)) <= 1

\* ------------------------------------------------------------------
\* C38: a command of an entity (dimmer turn_on / turn_off /
\* set_brightness, relay turn_on / turn_off, pulse button press) that
\* cannot be written, because the session has no writer or because the
\* write raises, returns the error and leaves every entity's is_on and
\* brightness as they were; a command that is written stores its state in
\* the entity it is called on and in no other; no command calls a
\* callback.
C38_FailedCommandKeepsState ==
    [][\A i \in DOMAIN ent : CommandStep(i) =>
          /\ out'.socket = NoConn => ~out'.sent
          /\ ~out'.sent => ent' = ent
          /\ out'.sent =>
                /\ out'.socket = npu.writer
                /\ ent'[i] = CommandEffect(ent[i], i, out'.call[2])
                /\ \A j \in DOMAIN ent \ {i} : ent'[j] = ent[j]
          /\ out'.invoked = << >>
          /\ out'.events = << >>]_vars

\* A dimmer that is on at level 255 and has a callback was commanded while
\* the session had no writer: the command failed and the dimmer is as it
\* was.
C38_Witness ==
    /\ out.op = "command"
    /\ out.entity = <<"light", 12, 3>>
    /\ ~out.sent
    /\ out.socket = NoConn
    /\ ~npu.online
    /\ ent[out.entity].is_on = "on"
    /\ ent[out.entity].brightness = 255
    /\ ent[out.entity].callbacks # {}

\* ------------------------------------------------------------------
\* A session whose application calls start() and stop() at any time, on a
\* gateway that drops connections, with the keep-alive loop's failed
\* sends and forced disconnects.
WatchdogOverlapNext ==
    \/ \E k \in Calls : StartCall(k)
    \/ \E j \in StopCalls : StopCall(j)
    \/ \E j \in StopCalls : StopCloseDone(j)
    \/ \E c \in Connectors : ConnectOk(c) /\ UNCHANGED refusals
    \/ \E c \in Connectors : HandshakeReady(c) /\ UNCHANGED refusals
    \/ \E k \in Calls : MonitorRun(k)
    \/ \E k \in Calls : MonitorReadEnd(k)
    \/ \E k \in Calls : MonitorCloseDone(k)
    \/ \E n \in Conns : GatewayDrop(n) /\ UNCHANGED refusals
    \/ \E k \in Calls : KeepaliveSendFail(k)
    \/ \E k \in Calls : KeepaliveCloseDone(k)

WatchdogOverlapSpec == Init /\ [][WatchdogOverlapNext]_vars

\* ------------------------------------------------------------------
\* C39: the consecutive keep-alive failure counter is always within
\* 0 .. DEFAULT_MAX_RETRY_ATTEMPTS, and it is strictly below the maximum
\* whenever the keep-alive loop is waiting between two ticks.  Stated
\* for the states in which at most one instance of each background loop
\* is running.
C39_CounterWithinBounds ==
    (\A kind \in {"mon", "ka", "si"} : Cardinality(Instances(kind)) <= 1) =>
        /\ npu.comms_retry_attempts \in 0 .. DEFAULT_MAX_RETRY_ATTEMPTS
        /\ \A k \in Calls : pc[<<"ka", k>>] = "wait" =>
               npu.comms_retry_attempts < DEFAULT_MAX_RETRY_ATTEMPTS

====
